---- MODULE Spec2Model ----
(***************************************************************************)
(* AST -> Koopa IR lowering of the SysY front end (src/frontend):          *)
(* GenerateContext and generate_program (ir.rs), statement and local       *)
(* declaration lowering (stmt.rs), expression lowering with constant       *)
(* folding and short-circuit control flow (expr.rs).                       *)
(*                                                                         *)
(* The symbol table (symbol.rs) and the constant evaluator (consteval.rs)  *)
(* live in other files; they are modelled from their documented            *)
(* interface.                                                              *)
(***************************************************************************)
EXTENDS Integers, Sequences, FiniteSets, TLC

VARIABLES program, globals, context, pc, frames, unwound, result, last, nsteps

vars == <<program, globals, context, pc, frames, unwound, result, last, nsteps>>

(***************************************************************************)
(* Bounds of the model                                                     *)
(***************************************************************************)
\* size of the compilation unit: top-level declarations plus block items
MaxSteps == 4
\* nesting depth of block statements
MaxDepth == 2
\* calls made on one context by a user of GenerateContext
MaxCalls == 4

None == 0
NoErr == "none"

\* identifiers of locals/globals and of functions (disjoint name spaces)
Names == {"a", "b"}
FuncNames == {"f", "g"}

(***************************************************************************)
(* AST (ast.rs).  An expression node carries its kind k; the grammar level *)
(* (LOrExp > LAndExp > EqExp > RelExp > AddExp > MulExp > UnaryExp >       *)
(* PrimaryExp) of a node is Level(e).  The single-variant wrappers         *)
(* (LOrExp::And, LAndExp::Eq, ...) are implicit: a node of a lower level   *)
(* standing at a position of a higher level is wrapped.                    *)
(***************************************************************************)
Num(n) == [k |-> "Num", n |-> n]
LVal(id) == [k |-> "LVal", ident |-> id]
Paren(e) == [k |-> "Paren", exp |-> e]
Unary(op, e) == [k |-> "Unary", op |-> op, exp |-> e]
Mul(l, op, r) == [k |-> "Mul", op |-> op, lhs |-> l, rhs |-> r]
Add(l, op, r) == [k |-> "Add", op |-> op, lhs |-> l, rhs |-> r]
Rel(l, op, r) == [k |-> "Rel", op |-> op, lhs |-> l, rhs |-> r]
Eq(l, op, r) == [k |-> "Eq", op |-> op, lhs |-> l, rhs |-> r]
LAnd(l, r) == [k |-> "And", lhs |-> l, rhs |-> r]
LOr(l, r) == [k |-> "Or", lhs |-> l, rhs |-> r]

Level(e) ==
  CASE e.k = "Or" -> 8
    [] e.k = "And" -> 7
    [] e.k = "Eq" -> 6
    [] e.k = "Rel" -> 5
    [] e.k = "Add" -> 4
    [] e.k = "Mul" -> 3
    [] e.k = "Unary" -> 2
    [] OTHER -> 1

LOrExp == 8
LAndExp == 7
EqExp == 6
RelExp == 5
AddExp == 4
MulExp == 3
UnaryExp == 2
PrimaryExp == 1

BinKinds == {"Mul", "Add", "Rel", "Eq"}

Bool(b) == IF b THEN 1 ELSE 0

(***************************************************************************)
(* Symbol table (symbol.rs): a stack of scopes, innermost last; a scope    *)
(* is a function from the names it binds to symbols.  The global scope is  *)
(* one more scope below the stack, kept for the whole compilation.         *)
(***************************************************************************)
SymConst(v) == [kind |-> "Const", value |-> v]
SymVar(alloc) == [kind |-> "Var", alloc |-> alloc]
SymFunc(f) == [kind |-> "Func", func |-> f]

NoSymbol == [kind |-> "None"]

EmptyScope == [n \in {} |-> NoSymbol]

SymbolTable_new == <<EmptyScope>>

SymbolTable_push(symbol) == Append(symbol, EmptyScope)

SymbolTable_pop(symbol) == SubSeq(symbol, 1, Len(symbol) - 1)

\* insert(name, sym) -> bool: false when the innermost scope binds name
SymbolTable_can_insert(symbol, name) == name \notin DOMAIN symbol[Len(symbol)]

SymbolTable_insert(symbol, name, sym) ==
  IF SymbolTable_can_insert(symbol, name)
  THEN [symbol EXCEPT ![Len(symbol)] = (name :> sym) @@ @]
  ELSE symbol

RECURSIVE Lookup(_, _, _)
Lookup(symbol, i, name) ==
  IF i = 0 THEN NoSymbol
  ELSE IF name \in DOMAIN symbol[i] THEN symbol[i][name]
  ELSE Lookup(symbol, i - 1, name)

\* get(name) -> Option<Symbol>: innermost scope first, the global scope last
SymbolTable_get(symbol, glob, name) ==
  LET s == Lookup(symbol, Len(symbol), name)
  IN IF s # NoSymbol THEN s
     ELSE IF name \in DOMAIN glob THEN glob[name].sym ELSE NoSymbol

\* insert_global_def(name, sym) -> bool: false when name is defined globally
SymbolTable_insert_global_def(glob, name, sym) ==
  IF name \in DOMAIN glob /\ glob[name].defined
  THEN glob
  ELSE (name :> [sym |-> sym, defined |-> TRUE]) @@ glob

SymbolTable_can_insert_global_def(glob, name) ==
  ~(name \in DOMAIN glob /\ glob[name].defined)

\* insert_global_decl(name, sym): records a declaration, no duplicate check
SymbolTable_insert_global_decl(glob, name, sym) ==
  IF name \in DOMAIN glob THEN glob
  ELSE (name :> [sym |-> sym, defined |-> FALSE]) @@ glob

(***************************************************************************)
(* Constant evaluator (consteval.rs): Eval(exp, symbol, glob) is           *)
(* [ok |-> TRUE, v |-> n] when exp is a compile-time constant under the    *)
(* Const bindings visible in symbol/glob, and [ok |-> FALSE] otherwise.    *)
(***************************************************************************)
NotConstexpr == [ok |-> FALSE, v |-> 0]
\* the literals of the model keep every folded value far inside the i32 range
Constexpr(n) == [ok |-> TRUE, v |-> n]

Abs(x) == IF x < 0 THEN -x ELSE x
\* Rust's / and % truncate toward zero
TruncDiv(x, y) == IF (x < 0) = (y < 0) THEN Abs(x) \div Abs(y) ELSE -(Abs(x) \div Abs(y))
TruncRem(x, y) == x - y * TruncDiv(x, y)

EvalBinary(k, op, x, y) ==
  CASE op = "*" -> Constexpr(x * y)
    [] op = "/" -> IF y = 0 THEN NotConstexpr ELSE Constexpr(TruncDiv(x, y))
    [] op = "%" -> IF y = 0 THEN NotConstexpr ELSE Constexpr(TruncRem(x, y))
    [] op = "+" -> Constexpr(x + y)
    [] op = "-" -> Constexpr(x - y)
    [] op = "<" -> Constexpr(Bool(x < y))
    [] op = "<=" -> Constexpr(Bool(x <= y))
    [] op = ">" -> Constexpr(Bool(x > y))
    [] op = ">=" -> Constexpr(Bool(x >= y))
    [] op = "==" -> Constexpr(Bool(x = y))
    [] op = "!=" -> Constexpr(Bool(x # y))

EvalUnary(op, x) ==
  CASE op = "+" -> Constexpr(x)
    [] op = "-" -> Constexpr(0 - x)
    [] op = "!" -> Constexpr(Bool(x = 0))

RECURSIVE Eval(_, _, _)
Eval(exp, symbol, glob) ==
  CASE exp.k = "Num" -> Constexpr(exp.n)
    [] exp.k = "LVal" ->
         LET s == SymbolTable_get(symbol, glob, exp.ident)
         IN IF s.kind = "Const" THEN Constexpr(s.value) ELSE NotConstexpr
    [] exp.k = "Paren" -> Eval(exp.exp, symbol, glob)
    [] exp.k = "Unary" ->
         LET x == Eval(exp.exp, symbol, glob)
         IN IF x.ok THEN EvalUnary(exp.op, x.v) ELSE NotConstexpr
    [] exp.k \in BinKinds ->
         LET x == Eval(exp.lhs, symbol, glob)
             y == Eval(exp.rhs, symbol, glob)
         IN IF x.ok /\ y.ok THEN EvalBinary(exp.k, exp.op, x.v, y.v) ELSE NotConstexpr
    [] exp.k = "Or" ->
         LET x == Eval(exp.lhs, symbol, glob)
             y == Eval(exp.rhs, symbol, glob)
         IN IF x.ok /\ y.ok THEN Constexpr(Bool(x.v # 0 \/ y.v # 0)) ELSE NotConstexpr
    [] exp.k = "And" ->
         LET x == Eval(exp.lhs, symbol, glob)
             y == Eval(exp.rhs, symbol, glob)
         IN IF x.ok /\ y.ok THEN Constexpr(Bool(x.v # 0 /\ y.v # 0)) ELSE NotConstexpr

(***************************************************************************)
(* IR values (koopa::ir::ValueKind).  A Value is a handle: the index of    *)
(* its data in the function's data-flow graph; global values are handles   *)
(* below zero.  A BasicBlock is the index of its data in dfg_bbs.          *)
(***************************************************************************)
Integer(n) == [kind |-> "Integer", value |-> n]
FuncArgRef(i) == [kind |-> "FuncArgRef", index |-> i]
Alloc == [kind |-> "Alloc"]
Load(src) == [kind |-> "Load", src |-> src]
Store(value, dest) == [kind |-> "Store", value |-> value, dest |-> dest]
Binary(op, lhs, rhs) == [kind |-> "Binary", op |-> op, lhs |-> lhs, rhs |-> rhs]
Branch(cond, t, f) == [kind |-> "Branch", cond |-> cond, true_bb |-> t, false_bb |-> f]
Jump(target) == [kind |-> "Jump", target |-> target]
Return(value) == [kind |-> "Return", value |-> value]

\* FunctionData::with_param_names: the parameters are the first values of the dfg
FunctionData(name, params, ret) ==
  [name |-> name, params |-> params, ret |-> ret,
   dfg |-> [i \in 1..Len(params) |-> FuncArgRef(i)],
   dfg_bbs |-> <<>>,
   layout |-> <<>>]

(***************************************************************************)
(* GenerateContext (ir.rs).  A context value c holds the fields of the     *)
(* struct; c.program is the module it has exclusive access to and c.glob   *)
(* the global scope the symbol table consults.                             *)
(***************************************************************************)
R(c, val, err) == [c |-> c, val |-> val, err |-> err]

\* the ? operator: the first error is returned at once
Try(r, K(_)) == IF r.err # NoErr THEN r ELSE K(r)

dfg(c) == c.program.funcs[c.func].dfg

layout(c) == c.program.funcs[c.func].layout

\* dfg().new_value().<kind>(..): the new handle is LastValue of the result
new_value(c, data) ==
  [c EXCEPT !.program.funcs[c.func].dfg = Append(@, data)]

LastValue(c) == Len(dfg(c))

\* position of block bb in the layout (0 when it is not there)
BBIndex(lay, bb) ==
  IF \E i \in 1..Len(lay) : lay[i].bb = bb
  THEN CHOOSE i \in 1..Len(lay) : lay[i].bb = bb
  ELSE 0

insts(c, bb) == layout(c)[BBIndex(layout(c), bb)].insts

SeqHas(s, x) == \E i \in 1..Len(s) : s[i] = x

\* mutant: the name counter is read but not advanced
add_bb_stale_counter(c) ==
  LET name == <<"%bb", c.next_bb_no>>
      c1 == [c EXCEPT !.program.funcs[c.func].dfg_bbs = Append(@, name)]
      bb == Len(c1.program.funcs[c.func].dfg_bbs)
  IN IF BBIndex(layout(c1), bb) # 0
     THEN R(c1, None, "PushKeyError")
     ELSE R([c1 EXCEPT !.program.funcs[c.func].layout =
                          Append(@, [bb |-> bb, insts |-> <<>>])],
            bb, NoErr)

add_bb(c) ==
  LET name == <<"%bb", c.next_bb_no>>
      c1 == [c EXCEPT !.next_bb_no = @ + 1,
                      !.program.funcs[c.func].dfg_bbs = Append(@, name)]
      bb == Len(c1.program.funcs[c.func].dfg_bbs)
  IN IF BBIndex(layout(c1), bb) # 0
     THEN R(c1, None, "PushKeyError")
     ELSE R([c1 EXCEPT !.program.funcs[c.func].layout =
                          Append(@, [bb |-> bb, insts |-> <<>>])],
            bb, NoErr)

\* mutant: emitting without an open block is reported as an error
add_inst_requires_block(c, value) ==
  IF c.bb # None
  THEN LET i == BBIndex(layout(c), c.bb)
       IN IF SeqHas(layout(c)[i].insts, value)
          THEN R(c, None, "PushKeyError")
          ELSE R([c EXCEPT !.program.funcs[c.func].layout[i].insts = Append(@, value)],
                 None, NoErr)
  ELSE R(c, None, "PushKeyError")

add_inst(c, value) ==
  IF c.bb # None
  THEN LET i == BBIndex(layout(c), c.bb)
       IN IF SeqHas(layout(c)[i].insts, value)
          THEN R(c, None, "PushKeyError")
          ELSE R([c EXCEPT !.program.funcs[c.func].layout[i].insts = Append(@, value)],
                 None, NoErr)
  ELSE R(c, None, NoErr)

switch_bb(c, final_inst, new_bb) ==
  Try(add_inst(c, final_inst), LAMBDA r : R([r.c EXCEPT !.bb = new_bb], None, NoErr))

(***************************************************************************)
(* Expression lowering (expr.rs).  t is the grammar level of the position  *)
(* the expression stands at, i.e. the type the Rust method is called on.   *)
(***************************************************************************)
RECURSIVE generate(_, _, _)
RECURSIVE generate_value(_, _, _)
RECURSIVE generate_with_short_circuiting(_, _, _, _, _, _)

\* mutant: a constant is read through a load like a variable
LVal_generate_value_load_const(exp, c) ==
  LET symbol == SymbolTable_get(c.symbol, c.glob, exp.ident)
  IN CASE symbol.kind = "None" -> R(c, None, "UndefinedVariable")
       [] OTHER ->
            LET c1 == new_value(c, Load(IF symbol.kind = "Var" THEN symbol.alloc ELSE None))
                load == LastValue(c1)
            IN Try(add_inst(c1, load), LAMBDA r : R(r.c, load, NoErr))

\* LVal::generate_value
LVal_generate_value(exp, c) ==
  LET symbol == SymbolTable_get(c.symbol, c.glob, exp.ident)
  IN CASE symbol.kind = "None" -> R(c, None, "UndefinedVariable")
       [] symbol.kind = "Const" ->
            LET c1 == new_value(c, Integer(symbol.value))
            IN R(c1, LastValue(c1), NoErr)
       [] symbol.kind = "Var" ->
            LET c1 == new_value(c, Load(symbol.alloc))
                load == LastValue(c1)
            IN Try(add_inst(c1, load), LAMBDA r : R(r.c, load, NoErr))

\* PrimaryExp::generate_value
PrimaryExp_generate_value(exp, c) ==
  CASE exp.k = "Paren" -> generate(LOrExp, exp.exp, c)
    [] exp.k = "Num" ->
         LET c1 == new_value(c, Integer(exp.n))
         IN R(c1, LastValue(c1), NoErr)
    [] exp.k = "LVal" -> LVal_generate_value(exp, c)

\* UnaryExp::generate_value
UnaryExp_generate_value(exp, c) ==
  IF exp.k # "Unary" THEN PrimaryExp_generate_value(exp, c)
  ELSE CASE exp.op = "+" -> generate(UnaryExp, exp.exp, c)
         [] exp.op = "-" ->
              Try(generate(UnaryExp, exp.exp, c), LAMBDA v :
                LET c1 == new_value(v.c, Integer(0))
                    zero == LastValue(c1)
                    c2 == new_value(c1, Binary("Sub", zero, v.val))
                    res == LastValue(c2)
                IN Try(add_inst(c2, res), LAMBDA r : R(r.c, res, NoErr)))
         [] exp.op = "!" ->
              Try(generate(UnaryExp, exp.exp, c), LAMBDA v :
                LET c1 == new_value(v.c, Integer(0))
                    zero == LastValue(c1)
                    c2 == new_value(c1, Binary("Eq", v.val, zero))
                    res == LastValue(c2)
                IN Try(add_inst(c2, res), LAMBDA r : R(r.c, res, NoErr)))

\* the operator match of the EqExp/RelExp/AddExp/MulExp arms
BinaryOp(op) ==
  CASE op = "==" -> "Eq"
    [] op = "!=" -> "NotEq"
    [] op = "<" -> "Lt"
    [] op = "<=" -> "Le"
    [] op = ">" -> "Gt"
    [] op = ">=" -> "Ge"
    [] op = "+" -> "Add"
    [] op = "-" -> "Sub"
    [] op = "*" -> "Mul"
    [] op = "/" -> "Div"
    [] op = "%" -> "Mod"

\* mutant: the right operand is lowered before the left operand
Binary_generate_value_rhs_first(t, exp, c) ==
  Try(generate(t - 1, exp.rhs, c), LAMBDA r :
    Try(generate(t, exp.lhs, r.c), LAMBDA l :
      LET c1 == new_value(l.c, Binary(BinaryOp(exp.op), l.val, r.val))
          res == LastValue(c1)
      IN Try(add_inst(c1, res), LAMBDA a : R(a.c, res, NoErr))))

\* the binary arm shared by EqExp, RelExp, AddExp and MulExp: the left
\* operand stands at level t, the right operand one level below
Binary_generate_value(t, exp, c) ==
  Try(generate(t, exp.lhs, c), LAMBDA l :
    Try(generate(t - 1, exp.rhs, l.c), LAMBDA r :
      LET c1 == new_value(r.c, Binary(BinaryOp(exp.op), l.val, r.val))
          res == LastValue(c1)
      IN Try(add_inst(c1, res), LAMBDA a : R(a.c, res, NoErr))))

\* mutant: the right-operand block is left without its jump to the join block
short_circuit_emit_no_jump(c, v) ==
  Try(add_inst(c, v.result), LAMBDA r1 :
  Try(add_inst(r1.c, v.init_result), LAMBDA r2 :
  Try(add_inst(r2.c, v.lhs_op_zero), LAMBDA r3 :
  Try(switch_bb(r3.c, v.branch, v.true_bb), LAMBDA r4 :
  Try(add_inst(r4.c, v.rhs_neq_zero), LAMBDA r5 :
  Try(add_inst(r5.c, v.rhs_store), LAMBDA r6 :
  Try(add_inst([r6.c EXCEPT !.bb = v.end_bb], v.load), LAMBDA r8 :
    R(r8.c, v.load, NoErr))))))))

\* mutant: the result slot is appended a second time in place of its store
short_circuit_emit_result_twice(c, v) ==
  Try(add_inst(c, v.result), LAMBDA r1 :
  Try(add_inst(r1.c, v.result), LAMBDA r2 :
  Try(add_inst(r2.c, v.lhs_op_zero), LAMBDA r3 :
  Try(switch_bb(r3.c, v.branch, v.true_bb), LAMBDA r4 :
  Try(add_inst(r4.c, v.rhs_neq_zero), LAMBDA r5 :
  Try(add_inst(r5.c, v.rhs_store), LAMBDA r6 :
  Try(switch_bb(r6.c, v.jump, v.end_bb), LAMBDA r7 :
  Try(add_inst(r7.c, v.load), LAMBDA r8 :
    R(r8.c, v.load, NoErr)))))))))

\* lines 80-89: the instructions are appended once both operands are lowered
short_circuit_emit(c, v) ==
  Try(add_inst(c, v.result), LAMBDA r1 :
  Try(add_inst(r1.c, v.init_result), LAMBDA r2 :
  Try(add_inst(r2.c, v.lhs_op_zero), LAMBDA r3 :
  Try(switch_bb(r3.c, v.branch, v.true_bb), LAMBDA r4 :
  Try(add_inst(r4.c, v.rhs_neq_zero), LAMBDA r5 :
  Try(add_inst(r5.c, v.rhs_store), LAMBDA r6 :
  Try(switch_bb(r6.c, v.jump, v.end_bb), LAMBDA r7 :
  Try(add_inst(r7.c, v.load), LAMBDA r8 :
    R(r8.c, v.load, NoErr)))))))))

generate_with_short_circuiting(c, tl, lhs, op, tr, rhs) ==
  LET c1 == new_value(c, Integer(0))
      zero == LastValue(c1)
      c2 == new_value(c1, Integer(1))
      one == LastValue(c2)
      c3 == new_value(c2, Alloc)
      result_ == LastValue(c3)
      init_value == IF op = "Or" THEN one ELSE zero
      c4 == new_value(c3, Store(init_value, result_))
      init_result == LastValue(c4)
  IN Try(generate_value(tl, lhs, c4), LAMBDA l :
       LET branch_op == IF op = "Or" THEN "Eq" ELSE "NotEq"
           c5 == new_value(l.c, Binary(branch_op, l.val, zero))
           lhs_op_zero == LastValue(c5)
       IN Try(add_bb(c5), LAMBDA t :
          Try(add_bb(t.c), LAMBDA e :
            LET true_bb == t.val
                end_bb == e.val
                c6 == new_value(e.c, Branch(lhs_op_zero, true_bb, end_bb))
                branch == LastValue(c6)
            IN Try(generate_value(tr, rhs, c6), LAMBDA r :
                 LET c7 == new_value(r.c, Binary("NotEq", r.val, zero))
                     rhs_neq_zero == LastValue(c7)
                     c8 == new_value(c7, Store(r.val, result_))
                     rhs_store == LastValue(c8)
                     c9 == new_value(c8, Jump(end_bb))
                     jump == LastValue(c9)
                     c10 == new_value(c9, Load(result_))
                     load == LastValue(c10)
                 IN short_circuit_emit(c10,
                      [result |-> result_, init_result |-> init_result,
                       lhs_op_zero |-> lhs_op_zero, branch |-> branch,
                       true_bb |-> true_bb, rhs_neq_zero |-> rhs_neq_zero,
                       rhs_store |-> rhs_store, jump |-> jump,
                       end_bb |-> end_bb, load |-> load])))))

\* the generate_value method of the type at level t, applied to exp: the
\* operator arm when exp is a node of that level, the wrapper arm otherwise
generate_value(t, exp, c) ==
  CASE t = LOrExp ->
         IF exp.k = "Or"
         THEN generate_with_short_circuiting(c, LOrExp, exp.lhs, "Or", LAndExp, exp.rhs)
         ELSE generate(LAndExp, exp, c)
    [] t = LAndExp ->
         IF exp.k = "And"
         THEN generate_with_short_circuiting(c, LAndExp, exp.lhs, "And", EqExp, exp.rhs)
         ELSE generate(EqExp, exp, c)
    [] t = EqExp ->
         IF exp.k = "Eq" THEN Binary_generate_value(EqExp, exp, c)
         ELSE generate(RelExp, exp, c)
    [] t = RelExp ->
         IF exp.k = "Rel" THEN Binary_generate_value(RelExp, exp, c)
         ELSE generate(AddExp, exp, c)
    [] t = AddExp ->
         IF exp.k = "Add" THEN Binary_generate_value(AddExp, exp, c)
         ELSE generate(MulExp, exp, c)
    [] t = MulExp ->
         IF exp.k = "Mul" THEN Binary_generate_value(MulExp, exp, c)
         ELSE generate(UnaryExp, exp, c)
    [] t = UnaryExp -> UnaryExp_generate_value(exp, c)
    [] t = PrimaryExp -> PrimaryExp_generate_value(exp, c)

\* mutant: the constant evaluator is not consulted
generate_runtime_only(t, exp, c) == generate_value(t, exp, c)

\* expr::generate: constant evaluation first, runtime lowering otherwise
generate(t, exp, c) ==
  LET value == Eval(exp, c.symbol, c.glob)
  IN IF value.ok
     THEN LET c1 == new_value(c, Integer(value.v))
          IN R(c1, LastValue(c1), NoErr)
     ELSE generate_value(t, exp, c)

(***************************************************************************)
(* Statement and local declaration lowering (stmt.rs)                      *)
(***************************************************************************)
NoExp == [k |-> "NoExp"]

StmtAssign(id, e) == [k |-> "Assign", ident |-> id, exp |-> e]
StmtExp(e) == [k |-> "Exp", exp |-> e]
StmtReturn(e) == [k |-> "Return", exp |-> e]
ConstDef(id, e) == [ident |-> id, init_val |-> e]
VarDef(id, e) == [ident |-> id, init_val |-> e]
DeclConst(defs) == [k |-> "ConstDecl", defs |-> defs]
DeclVar(defs) == [k |-> "VarDecl", defs |-> defs]

\* mutant: the right-hand side is lowered before the target is resolved
Stmt_Assign_lower_first(item, c) ==
  LET symbol == SymbolTable_get(c.symbol, c.glob, item.ident)
  IN Try(generate(LOrExp, item.exp, c), LAMBDA e :
       CASE symbol.kind = "None" -> R(e.c, None, "UndefinedVariable")
         [] symbol.kind = "Const" -> R(e.c, None, "AssignToConstant")
         [] symbol.kind = "Var" ->
              LET c1 == new_value(e.c, Store(e.val, symbol.alloc))
              IN add_inst(c1, LastValue(c1)))

\* Stmt::generate, Assign arm
Stmt_Assign(item, c) ==
  LET symbol == SymbolTable_get(c.symbol, c.glob, item.ident)
  IN CASE symbol.kind = "None" -> R(c, None, "UndefinedVariable")
       [] symbol.kind = "Const" -> R(c, None, "AssignToConstant")
       [] symbol.kind = "Var" ->
            Try(generate(LOrExp, item.exp, c), LAMBDA e :
              LET c1 == new_value(e.c, Store(e.val, symbol.alloc))
              IN add_inst(c1, LastValue(c1)))

\* Stmt::generate, Exp arm
Stmt_Exp(item, c) ==
  IF item.exp # NoExp
  THEN Try(generate(LOrExp, item.exp, c), LAMBDA e : R(e.c, None, NoErr))
  ELSE R(c, None, NoErr)

\* Stmt::generate, Return arm
Stmt_Return(item, c) ==
  Try(generate(LOrExp, item.exp, c), LAMBDA e :
    LET c1 == new_value(e.c, Return(e.val))
    IN add_inst(c1, LastValue(c1)))

\* Stmt::generate, Block arm: the scope is pushed on entry ...
Stmt_Block_enter(c) == [c EXCEPT !.symbol = SymbolTable_push(@)]

\* mutant: the scope pushed on entry is left on the stack
Stmt_Block_exit_no_pop(c) == c

\* ... and popped after the last item
Stmt_Block_exit(c) == [c EXCEPT !.symbol = SymbolTable_pop(@)]

\* mutant: a constant gets a stack slot and an initial store like a variable
RECURSIVE ConstDecl_generate_with_slot(_, _, _)
ConstDecl_generate_with_slot(defs, i, c) ==
  IF i > Len(defs) THEN R(c, None, NoErr)
  ELSE LET name == defs[i].ident
           val == Eval(defs[i].init_val, c.symbol, c.glob)
           c1 == new_value(c, Alloc)
           alloc == LastValue(c1)
           c2 == new_value(c1, Integer(val.v))
           c3 == new_value(c2, Store(LastValue(c2), alloc))
       IN IF ~val.ok THEN R(c, None, "ConstexprRequired")
          ELSE IF ~SymbolTable_can_insert(c.symbol, name)
          THEN R(c, None, "Redefinition")
          ELSE Try(add_inst(c3, alloc), LAMBDA r1 :
               Try(add_inst(r1.c, LastValue(c3)), LAMBDA r2 :
                 ConstDecl_generate_with_slot(defs, i + 1,
                   [r2.c EXCEPT !.symbol = SymbolTable_insert(@, name, SymConst(val.v))])))

\* ConstDecl::generate: the loop over the definitions, from the i-th on
RECURSIVE ConstDecl_generate(_, _, _)
ConstDecl_generate(defs, i, c) ==
  IF i > Len(defs) THEN R(c, None, NoErr)
  ELSE LET name == defs[i].ident
           val == Eval(defs[i].init_val, c.symbol, c.glob)
       IN IF ~val.ok THEN R(c, None, "ConstexprRequired")
          ELSE IF ~SymbolTable_can_insert(c.symbol, name)
          THEN R(c, None, "Redefinition")
          ELSE ConstDecl_generate(defs, i + 1,
                 [c EXCEPT !.symbol = SymbolTable_insert(@, name, SymConst(val.v))])

\* mutant: the result of symbol.insert is ignored, the later binding wins
VarDef_generate_unchecked(def, c) ==
  LET name == def.ident
      c1 == new_value(c, Alloc)
      alloc == LastValue(c1)
      bind(cc) ==
        R([cc EXCEPT !.symbol[Len(cc.symbol)] = (name :> SymVar(alloc)) @@ @], None, NoErr)
  IN Try(add_inst(c1, alloc), LAMBDA a :
       IF def.init_val # NoExp
       THEN Try(generate(LOrExp, def.init_val, a.c), LAMBDA e :
              LET c2 == new_value(e.c, Store(e.val, alloc))
              IN Try(add_inst(c2, LastValue(c2)), LAMBDA st : bind(st.c)))
       ELSE bind(a.c))

\* mutant: a variable with a constant initializer is bound like a constant
VarDef_generate_fold_literal(def, c) ==
  LET name == def.ident
      value == IF def.init_val = NoExp THEN NotConstexpr
               ELSE Eval(def.init_val, c.symbol, c.glob)
      c1 == new_value(c, Alloc)
      alloc == LastValue(c1)
      bind(cc) ==
        IF ~SymbolTable_can_insert(cc.symbol, name)
        THEN R(cc, None, "Redefinition")
        ELSE R([cc EXCEPT !.symbol = SymbolTable_insert(@, name, SymVar(alloc))],
               None, NoErr)
  IN IF value.ok
     THEN IF ~SymbolTable_can_insert(c.symbol, name)
          THEN R(c, None, "Redefinition")
          ELSE R([c EXCEPT !.symbol = SymbolTable_insert(@, name, SymConst(value.v))],
                 None, NoErr)
     ELSE Try(add_inst(c1, alloc), LAMBDA a1 :
            IF def.init_val # NoExp
            THEN Try(generate(LOrExp, def.init_val, a1.c), LAMBDA e :
                   LET c2 == new_value(e.c, Store(e.val, alloc))
                   IN Try(add_inst(c2, LastValue(c2)), LAMBDA st : bind(st.c)))
            ELSE bind(a1.c))

\* mutant: the name is bound as soon as its slot is allocated
VarDef_generate_bind_first(def, c) ==
  LET name == def.ident
      c1 == new_value(c, Alloc)
      alloc == LastValue(c1)
  IN IF ~SymbolTable_can_insert(c.symbol, name)
     THEN R(c, None, "Redefinition")
     ELSE Try(add_inst([c1 EXCEPT !.symbol = SymbolTable_insert(@, name, SymVar(alloc))],
                       alloc), LAMBDA a1 :
            IF def.init_val # NoExp
            THEN Try(generate(LOrExp, def.init_val, a1.c), LAMBDA e :
                   LET c2 == new_value(e.c, Store(e.val, alloc))
                   IN add_inst(c2, LastValue(c2)))
            ELSE R(a1.c, None, NoErr))

\* VarDecl::generate, one definition: allocation, initializer, binding
VarDef_generate(def, c) ==
  LET name == def.ident
      c1 == new_value(c, Alloc)
      alloc == LastValue(c1)
      bind(cc) ==
        IF ~SymbolTable_can_insert(cc.symbol, name)
        THEN R(cc, None, "Redefinition")
        ELSE R([cc EXCEPT !.symbol = SymbolTable_insert(@, name, SymVar(alloc))],
               None, NoErr)
  IN Try(add_inst(c1, alloc), LAMBDA a :
       IF def.init_val # NoExp
       THEN Try(generate(LOrExp, def.init_val, a.c), LAMBDA e :
              LET c2 == new_value(e.c, Store(e.val, alloc))
              IN Try(add_inst(c2, LastValue(c2)), LAMBDA st : bind(st.c)))
       ELSE bind(a.c))

\* VarDecl::generate: the loop over the definitions, from the i-th on
RECURSIVE VarDecl_generate(_, _, _)
VarDecl_generate(defs, i, c) ==
  IF i > Len(defs) THEN R(c, None, NoErr)
  ELSE Try(VarDef_generate(defs[i], c), LAMBDA r : VarDecl_generate(defs, i + 1, r.c))

\* stmt::generate for every item but a block statement
stmt_generate(item, c) ==
  CASE item.k = "Assign" -> Stmt_Assign(item, c)
    [] item.k = "Exp" -> Stmt_Exp(item, c)
    [] item.k = "Return" -> Stmt_Return(item, c)
    [] item.k = "ConstDecl" -> ConstDecl_generate(item.defs, 1, c)
    [] item.k = "VarDecl" -> VarDecl_generate(item.defs, 1, c)

(***************************************************************************)
(* Program builder (ir.rs)                                                 *)
(***************************************************************************)
FuncDecl(ident, func_type, params, has_body) ==
  [ident |-> ident, func_type |-> func_type, params |-> params, has_body |-> has_body]

\* the parameter loop of GenerateContext::new, from the i-th parameter on
RECURSIVE store_params(_, _, _)
store_params(params, i, c) ==
  IF i > Len(params) THEN R(c, None, NoErr)
  ELSE LET name == params[i]
           param == i
           c1 == new_value(c, Alloc)
           alloc == LastValue(c1)
           c2 == new_value(c1, Store(param, alloc))
           store == LastValue(c2)
       IN Try(add_inst(c2, alloc), LAMBDA a :
          Try(add_inst(a.c, store), LAMBDA st :
            IF ~SymbolTable_can_insert(st.c.symbol, name)
            THEN R(st.c, None, "Redefinition")
            ELSE store_params(params, i + 1,
                   [st.c EXCEPT !.symbol = SymbolTable_insert(@, name, SymVar(alloc))])))

\* GenerateContext::new
GenerateContext_new(prog, glob, func_ast) ==
  LET func_ir_type == IF func_ast.func_type = "Int" THEN "i32" ELSE "unit"
      prog1 == [prog EXCEPT !.funcs =
                  Append(@, FunctionData(func_ast.ident, func_ast.params, func_ir_type))]
      this == [program |-> prog1, glob |-> glob, func |-> Len(prog1.funcs), bb |-> None,
               symbol |-> SymbolTable_new, next_bb_no |-> 0, loop_jump_pt |-> <<>>]
  IN IF func_ast.has_body
     THEN Try(add_bb(this), LAMBDA entry :
            store_params(func_ast.params, 1, [entry.c EXCEPT !.bb = entry.val]))
     ELSE R(this, None, NoErr)

IsTerminator(v) == v.kind \in {"Return", "Jump", "Branch"}

\* mutant: an empty block is taken to need no return
need_ret_skip_empty(fd, node) ==
  Len(node.insts) > 0 /\ ~IsTerminator(fd.dfg[node.insts[Len(node.insts)]])

\* add_extra_ret: the blocks that get a return appended
need_ret(fd, node) ==
  IF Len(node.insts) > 0
  THEN ~IsTerminator(fd.dfg[node.insts[Len(node.insts)]])
  ELSE TRUE

\* add_extra_ret, the first loop: the blocks whose last instruction is no terminator
need_ret_bbs(fd) ==
  LET nodes == SelectSeq(fd.layout, LAMBDA node : need_ret(fd, node))
  IN [i \in 1..Len(nodes) |-> nodes[i].bb]

\* mutant: the return type is not looked at, every appended return is bare
RECURSIVE add_ret_from_bare(_, _, _)
add_ret_from_bare(fd, bbs, i) ==
  IF i > Len(bbs) THEN fd
  ELSE LET dfg1 == Append(fd.dfg, Return(None))
           ret == Len(dfg1)
           n == BBIndex(fd.layout, bbs[i])
       IN add_ret_from_bare([fd EXCEPT !.dfg = dfg1,
                                       !.layout[n].insts = Append(@, ret)], bbs, i + 1)

\* add_extra_ret, the second loop, from the i-th block of need_ret_bbs on
RECURSIVE add_ret_from(_, _, _)
add_ret_from(fd, bbs, i) ==
  IF i > Len(bbs) THEN fd
  ELSE LET dfg1 == IF fd.ret = "i32"
                   THEN fd.dfg \o <<Integer(0), Return(Len(fd.dfg) + 1)>>
                   ELSE Append(fd.dfg, Return(None))
           ret == Len(dfg1)
           n == BBIndex(fd.layout, bbs[i])
       IN add_ret_from([fd EXCEPT !.dfg = dfg1,
                                  !.layout[n].insts = Append(@, ret)], bbs, i + 1)

add_extra_ret(fd) == add_ret_from(fd, need_ret_bbs(fd), 1)

\* the global constant arm of generate_program (Decl::Var, is_const)
global_const_def(def, prog, glob) ==
  IF def.init_val = NoExp THEN [program |-> prog, glob |-> glob, err |-> "InitializerRequired"]
  ELSE LET value == Eval(def.init_val, <<>>, glob)
       IN IF ~value.ok
          THEN [program |-> prog, glob |-> glob, err |-> "ConstexprRequired"]
          ELSE IF ~SymbolTable_can_insert_global_def(glob, def.ident)
          THEN [program |-> prog, glob |-> glob, err |-> "Redefinition"]
          ELSE [program |-> prog,
                glob |-> SymbolTable_insert_global_def(glob, def.ident, SymConst(value.v)),
                err |-> NoErr]

\* the global variable arm of generate_program (Decl::Var, not const); the
\* handle of the i-th global value is -i
global_var_def(def, prog, glob) ==
  LET value == IF def.init_val = NoExp THEN NotConstexpr ELSE Eval(def.init_val, <<>>, glob)
  IN IF def.init_val # NoExp /\ ~value.ok
     THEN [program |-> prog, glob |-> glob, err |-> "ConstexprRequired"]
     ELSE LET init == IF def.init_val = NoExp THEN [kind |-> "ZeroInit"] ELSE Integer(value.v)
              values1 == Append(prog.values, init)
              values2 == Append(values1, [kind |-> "GlobalAlloc", init |-> -Len(values1),
                                          name |-> <<"%", def.ident>>])
              alloc == -Len(values2)
              prog1 == [prog EXCEPT !.values = values2]
          IN IF ~SymbolTable_can_insert_global_def(glob, def.ident)
             THEN [program |-> prog1, glob |-> glob, err |-> "Redefinition"]
             ELSE [program |-> prog1,
                   glob |-> SymbolTable_insert_global_def(glob, def.ident, SymVar(alloc)),
                   err |-> NoErr]

\* generate_program, Decl::Var arm: the loop over declaration.list, from the i-th on
RECURSIVE global_decl_from(_, _, _, _)
global_decl_from(declaration, i, prog, glob) ==
  IF i > Len(declaration.list) THEN [program |-> prog, glob |-> glob, err |-> NoErr]
  ELSE LET r == IF declaration.is_const
                THEN global_const_def(declaration.list[i], prog, glob)
                ELSE global_var_def(declaration.list[i], prog, glob)
       IN IF r.err # NoErr THEN r
          ELSE global_decl_from(declaration, i + 1, r.program, r.glob)

global_decl(declaration, prog, glob) ==
  IF declaration.ty = "Void"
  THEN [program |-> prog, glob |-> glob, err |-> "IllegalVoid"]
  ELSE global_decl_from(declaration, 1, prog, glob)

\* the prelude of generate_program: declarations of the SysY runtime library
PreludeDecl(name, nparams, ret) ==
  FunctionData(name, [i \in 1..nparams |-> "_"], ret)

Prelude ==
  << PreludeDecl("@getint", 0, "i32"), PreludeDecl("@getch", 0, "i32"),
     PreludeDecl("@getarray", 1, "i32"), PreludeDecl("@putint", 1, "i32"),
     PreludeDecl("@putch", 1, "i32"), PreludeDecl("@putarray", 2, "i32"),
     PreludeDecl("@starttime", 0, "i32"), PreludeDecl("@stoptime", 0, "i32") >>

(***************************************************************************)
(* Inputs: the declarations and block items a compilation unit is made of  *)
(***************************************************************************)
a == LVal("a")
b == LVal("b")

Items ==
  { StmtReturn(Num(0)), StmtReturn(a), StmtReturn(LOr(a, b)),
    StmtExp(NoExp), StmtExp(LAnd(b, a)),
    StmtAssign("a", Num(1)), StmtAssign("b", a),
    DeclConst(<<ConstDef("a", Add(Num(1), "+", Num(2)))>>),
    DeclConst(<<ConstDef("b", a)>>),
    DeclConst(<<ConstDef("a", Num(1)), ConstDef("b", Add(a, "+", Num(2)))>>),
    DeclVar(<<VarDef("a", NoExp)>>),
    DeclVar(<<VarDef("a", a)>>),
    DeclVar(<<VarDef("a", Num(1))>>),
    DeclVar(<<VarDef("b", Num(2))>>),
    DeclVar(<<VarDef("b", LOr(a, b))>>),
    StmtReturn(Add(a, "+", Mul(b, "*", Num(3)))) }

FuncDecls ==
  { FuncDecl("f", "Int", <<>>, TRUE),
    FuncDecl("f", "Int", <<"a">>, TRUE),
    FuncDecl("f", "Int", <<"a", "a">>, TRUE),
    FuncDecl("g", "Void", <<"b">>, TRUE),
    FuncDecl("g", "Void", <<"b">>, FALSE) }

GlobalDecl(ty, is_const, list) == [ty |-> ty, is_const |-> is_const, list |-> list]

GlobalDecls ==
  { GlobalDecl("Int", TRUE, <<ConstDef("a", Num(1))>>),
    GlobalDecl("Int", FALSE, <<VarDef("a", NoExp)>>),
    GlobalDecl("Int", FALSE, <<VarDef("f", Num(1))>>),
    GlobalDecl("Void", FALSE, <<VarDef("b", NoExp)>>) }

(***************************************************************************)
(* State machine of generate_program.  pc is the position of the builder:  *)
(* "decl" between two top-level declarations, "body" inside the loop over  *)
(* the items of a function body, "done" after Ok(program) and "error"      *)
(* after an Err has been returned.  frames holds one entry per Block arm   *)
(* of Stmt::generate that is on the call stack.                            *)
(***************************************************************************)
NoContext ==
  [func |-> None, bb |-> None, symbol |-> <<>>, next_bb_no |-> 0, loop_jump_pt |-> <<>>]

\* the context value the lowering operators work on, and back
Ctx == [program |-> program, glob |-> globals, func |-> context.func, bb |-> context.bb,
        symbol |-> context.symbol, next_bb_no |-> context.next_bb_no,
        loop_jump_pt |-> context.loop_jump_pt]

ContextOf(c) ==
  [func |-> c.func, bb |-> c.bb, symbol |-> c.symbol, next_bb_no |-> c.next_bb_no,
   loop_jump_pt |-> c.loop_jump_pt]

Snapshot(c) ==
  [bb |-> c.bb, symbol |-> c.symbol,
   layout |-> IF c.func = None THEN <<>> ELSE layout(c),
   ndfg |-> IF c.func = None THEN 0 ELSE Len(dfg(c))]

Init ==
  /\ program = [funcs |-> Prelude, values |-> <<>>]
  /\ globals = EmptyScope
  /\ context = NoContext
  /\ pc = "decl"
  /\ frames = <<>>
  /\ unwound = <<>>
  /\ result = "none"
  /\ last = [op |-> "init"]
  /\ nsteps = 0

\* an Err leaves through every ? on the call stack: no handler runs again
Fail(c, err, op, arg) ==
  /\ program' = c.program
  /\ context' = ContextOf(c)
  /\ pc' = "error"
  /\ result' = err
  /\ unwound' = frames
  /\ frames' = <<>>
  /\ last' = [op |-> op, arg |-> arg, pre |-> Snapshot(Ctx), err |-> err]

\* mutant: a function definition replaces an earlier definition of its name
DeclFunc_unchecked(decl) ==
  /\ pc = "decl"
  /\ nsteps < MaxSteps
  /\ nsteps' = nsteps + 1
  /\ LET r == GenerateContext_new(program, globals, decl)
     IN IF r.err # NoErr
        THEN Fail(r.c, r.err, "DeclFunc", decl) /\ UNCHANGED globals
        ELSE IF decl.has_body
        THEN /\ globals' = (decl.ident :> [sym |-> SymFunc(r.c.func), defined |-> TRUE])
                              @@ globals
             /\ program' = r.c.program
             /\ context' = ContextOf(r.c)
             /\ pc' = "body"
             /\ last' = [op |-> "DeclFunc", arg |-> decl, pre |-> Snapshot(Ctx),
                         err |-> NoErr]
             /\ UNCHANGED <<frames, unwound, result>>
        ELSE /\ globals' = SymbolTable_insert_global_decl(globals, decl.ident,
                                                          SymFunc(r.c.func))
             /\ program' = r.c.program
             /\ context' = NoContext
             /\ last' = [op |-> "DeclFunc", arg |-> decl, pre |-> Snapshot(Ctx),
                         err |-> NoErr]
             /\ UNCHANGED <<pc, frames, unwound, result>>

\* generate_program, Decl::Func arm up to the loop over the body
DeclFunc(decl) ==
  /\ pc = "decl"
  /\ nsteps < MaxSteps
  /\ nsteps' = nsteps + 1
  /\ LET r == GenerateContext_new(program, globals, decl)
     IN IF r.err # NoErr
        THEN Fail(r.c, r.err, "DeclFunc", decl) /\ UNCHANGED globals
        ELSE IF decl.has_body
        THEN IF ~SymbolTable_can_insert_global_def(globals, decl.ident)
             THEN Fail(r.c, "Redefinition", "DeclFunc", decl) /\ UNCHANGED globals
             ELSE /\ globals' = SymbolTable_insert_global_def(globals, decl.ident,
                                                              SymFunc(r.c.func))
                  /\ program' = r.c.program
                  /\ context' = ContextOf(r.c)
                  /\ pc' = "body"
                  /\ last' = [op |-> "DeclFunc", arg |-> decl, pre |-> Snapshot(Ctx),
                              err |-> NoErr]
                  /\ UNCHANGED <<frames, unwound, result>>
        ELSE /\ globals' = SymbolTable_insert_global_decl(globals, decl.ident,
                                                          SymFunc(r.c.func))
             /\ program' = r.c.program
             /\ context' = NoContext
             /\ last' = [op |-> "DeclFunc", arg |-> decl, pre |-> Snapshot(Ctx),
                         err |-> NoErr]
             /\ UNCHANGED <<pc, frames, unwound, result>>

\* generate_program, Decl::Var arm
DeclGlobal(declaration) ==
  /\ pc = "decl"
  /\ nsteps < MaxSteps
  /\ nsteps' = nsteps + 1
  /\ LET r == global_decl(declaration, program, globals)
     IN /\ program' = r.program
        /\ globals' = r.glob
        /\ pc' = IF r.err # NoErr THEN "error" ELSE pc
        /\ result' = IF r.err # NoErr THEN r.err ELSE result
        /\ last' = [op |-> "DeclGlobal", arg |-> declaration, pre |-> Snapshot(Ctx),
                    err |-> r.err]
        /\ UNCHANGED <<context, frames, unwound>>

\* mutant: an Err of an item is dropped and the loop goes on
LowerItem_keep_going(item) ==
  /\ pc = "body"
  /\ nsteps < MaxSteps
  /\ nsteps' = nsteps + 1
  /\ LET r == stmt_generate(item, Ctx)
     IN /\ program' = r.c.program
        /\ context' = ContextOf(r.c)
        /\ last' = [op |-> "LowerItem", arg |-> item, pre |-> Snapshot(Ctx),
                    err |-> r.err]
        /\ UNCHANGED <<globals, pc, frames, unwound, result>>

\* stmt::generate on the next item of the block being lowered
LowerItem(item) ==
  /\ pc = "body"
  /\ nsteps < MaxSteps
  /\ nsteps' = nsteps + 1
  /\ LET r == stmt_generate(item, Ctx)
     IN IF r.err # NoErr
        THEN Fail(r.c, r.err, "LowerItem", item) /\ UNCHANGED globals
        ELSE /\ program' = r.c.program
             /\ context' = ContextOf(r.c)
             /\ last' = [op |-> "LowerItem", arg |-> item, pre |-> Snapshot(Ctx),
                         err |-> NoErr]
             /\ UNCHANGED <<globals, pc, frames, unwound, result>>

\* Stmt::generate, Block arm, entry: the next item is a block statement
EnterBlock ==
  /\ pc = "body"
  /\ nsteps < MaxSteps
  /\ Len(frames) < MaxDepth
  /\ nsteps' = nsteps + 1
  /\ context' = ContextOf(Stmt_Block_enter(Ctx))
  /\ frames' = Append(frames, Snapshot(Ctx))
  /\ last' = [op |-> "EnterBlock", arg |-> NoExp, pre |-> Snapshot(Ctx), err |-> NoErr]
  /\ UNCHANGED <<program, globals, pc, unwound, result>>

\* Stmt::generate, Block arm, exit: the block being lowered has no more items
ExitBlock ==
  /\ pc = "body"
  /\ frames # <<>>
  /\ context' = ContextOf(Stmt_Block_exit(Ctx))
  /\ frames' = SubSeq(frames, 1, Len(frames) - 1)
  /\ last' = [op |-> "ExitBlock", arg |-> frames[Len(frames)], pre |-> Snapshot(Ctx),
              err |-> NoErr]
  /\ UNCHANGED <<program, globals, pc, unwound, result, nsteps>>

\* generate_program: the loop over the function body ends, the context is dropped
EndFunc ==
  /\ pc = "body"
  /\ frames = <<>>
  /\ pc' = "decl"
  /\ context' = NoContext
  /\ last' = [op |-> "EndFunc", arg |-> NoExp, pre |-> Snapshot(Ctx), err |-> NoErr]
  /\ UNCHANGED <<program, globals, frames, unwound, result, nsteps>>

\* generate_program: no declaration is left; the implicit-return pass, then Ok(program)
Finish ==
  /\ pc = "decl"
  /\ program' = [program EXCEPT !.funcs = [i \in 1..Len(@) |-> add_extra_ret(@[i])]]
  /\ pc' = "done"
  /\ result' = "Ok"
  /\ last' = [op |-> "Finish", arg |-> NoExp, pre |-> Snapshot(Ctx), err |-> NoErr]
  /\ UNCHANGED <<globals, context, frames, unwound, nsteps>>

Next ==
  \/ \E decl \in FuncDecls : DeclFunc(decl)
  \/ \E declaration \in GlobalDecls : DeclGlobal(declaration)
  \/ \E item \in Items : LowerItem(item)
  \/ EnterBlock
  \/ ExitBlock
  \/ EndFunc
  \/ Finish

Spec == Init /\ [][Next]_vars

(***************************************************************************)
(* Expression lowering on its own: SpecExpr draws a context a function     *)
(* body can be in (each name unbound, a local constant or a local          *)
(* variable) and one expression, and applies expr::generate, or            *)
(* LVal::generate_value, to it.                                            *)
(***************************************************************************)
Atoms == {Num(0), Num(2), a, b}
VarAtoms == {a, b}

Depth1 ==
  {Unary(op, x) : op \in {"+", "-", "!"}, x \in Atoms}
  \cup {Paren(x) : x \in Atoms}
  \cup {Mul(x, op, y) : op \in {"*", "/", "%"}, x \in VarAtoms, y \in Atoms}
  \cup {Add(x, op, y) : op \in {"+", "-"}, x \in Atoms, y \in Atoms}
  \cup {Rel(x, op, y) : op \in {"<", "<=", ">", ">="}, x \in VarAtoms, y \in {Num(2), b}}
  \cup {Eq(x, op, y) : op \in {"==", "!="}, x \in VarAtoms, y \in {Num(0), a}}
  \cup {LOr(x, y) : x \in Atoms, y \in Atoms}
  \cup {LAnd(x, y) : x \in Atoms, y \in Atoms}

Depth2 ==
  {LOr(LOr(x, y), z) : x \in VarAtoms, y \in VarAtoms, z \in VarAtoms}
  \cup {LOr(x, LAnd(y, z)) : x \in VarAtoms, y \in VarAtoms, z \in VarAtoms}
  \cup {LAnd(LAnd(x, y), z) : x \in VarAtoms, y \in VarAtoms, z \in VarAtoms}
  \cup {LAnd(x, Eq(y, "==", z)) : x \in VarAtoms, y \in VarAtoms, z \in VarAtoms}
  \cup {LAnd(Paren(LOr(x, y)), z) : x \in VarAtoms, y \in VarAtoms, z \in VarAtoms}
  \cup {LOr(LOr(Num(0), Num(2)), x) : x \in VarAtoms}
  \cup {LOr(Add(x, "+", Num(2)), Unary("!", y)) : x \in VarAtoms, y \in VarAtoms}
  \cup {Add(x, "+", Mul(y, "*", Num(2))) : x \in VarAtoms, y \in VarAtoms}
  \cup {Add(Add(x, "+", y), "-", Num(2)) : x \in VarAtoms, y \in VarAtoms}
  \cup {Unary("-", Paren(LAnd(x, y))) : x \in VarAtoms, y \in VarAtoms}

\* operators over operator operands: chains, unary operators over operators
\* and short-circuit operands in parentheses
OperandForms ==
  {Add(Add(x, "+", y), "+", z) : x \in VarAtoms, y \in VarAtoms, z \in VarAtoms}
  \cup {Rel(Add(x, "+", y), "<", Mul(y, "*", x)) : x \in VarAtoms, y \in VarAtoms}
  \cup {Mul(Unary(op, x), "*", y) : op \in {"-", "!"}, x \in VarAtoms, y \in VarAtoms}
  \cup {Unary(op, Paren(Add(x, "+", y))) : op \in {"+", "-", "!"}, x \in VarAtoms, y \in VarAtoms}
  \cup {Unary("-", Unary("-", x)) : x \in VarAtoms}
  \cup {Add(Paren(LOr(x, y)), "+", z) : x \in VarAtoms, y \in VarAtoms, z \in VarAtoms}
  \cup {Add(x, "-", Paren(LAnd(y, z))) : x \in VarAtoms, y \in VarAtoms, z \in VarAtoms}
  \cup {Add(Paren(LOr(x, LAnd(y, x))), "+", Paren(LAnd(y, x))) :
          x \in VarAtoms, y \in VarAtoms}
  \cup {LAnd(x, Eq(Num(0), "==", Num(0))) : x \in VarAtoms}

Exprs == Atoms \cup Depth1 \cup Depth2 \cup OperandForms

Bindings == {"unbound", "const0", "const2", "var"}

\* the context after `<binding of a>; <binding of b>;` at the top of a body
Bind(c, name, binding) ==
  CASE binding = "unbound" -> c
    [] binding = "const0" -> stmt_generate(DeclConst(<<ConstDef(name, Num(0))>>), c).c
    [] binding = "const2" -> stmt_generate(DeclConst(<<ConstDef(name, Num(2))>>), c).c
    [] binding = "var" -> stmt_generate(DeclVar(<<VarDef(name, NoExp)>>), c).c

ExprContext(ba, bb) ==
  LET c0 == GenerateContext_new([funcs |-> Prelude, values |-> <<>>], EmptyScope,
                                FuncDecl("f", "Int", <<>>, TRUE)).c
  IN Bind(Bind(c0, "a", ba), "b", bb)

InitExpr ==
  /\ \E ba \in Bindings, bb \in Bindings :
       LET c == ExprContext(ba, bb)
       IN /\ program = c.program
          /\ context = ContextOf(c)
  /\ globals = EmptyScope
  /\ pc = "expr"
  /\ frames = <<>>
  /\ unwound = <<>>
  /\ result = "none"
  /\ \E exp \in Exprs : last = [op |-> "input", arg |-> exp]
  /\ nsteps = 0

\* expr::generate applied to the expression, as a statement arm applies it
Generate ==
  /\ pc = "expr"
  /\ LET r == generate(LOrExp, last.arg, Ctx)
     IN /\ program' = r.c.program
        /\ context' = ContextOf(r.c)
        /\ result' = r.err
        /\ last' = [op |-> "generate", arg |-> last.arg, pre |-> Snapshot(Ctx),
                    val |-> r.val]
  /\ pc' = "generated"
  /\ UNCHANGED <<globals, frames, unwound, nsteps>>

\* LVal::generate_value applied to an identifier
LValGenerateValue ==
  /\ pc = "expr"
  /\ last.arg.k = "LVal"
  /\ LET r == LVal_generate_value(last.arg, Ctx)
     IN /\ program' = r.c.program
        /\ context' = ContextOf(r.c)
        /\ result' = r.err
        /\ last' = [op |-> "lval", arg |-> last.arg, pre |-> Snapshot(Ctx),
                    val |-> r.val]
  /\ pc' = "lval"
  /\ UNCHANGED <<globals, frames, unwound, nsteps>>

NextExpr == Generate \/ LValGenerateValue

SpecExpr == InitExpr /\ [][NextExpr]_vars

(***************************************************************************)
(* GenerateContext on its own: SpecContext draws a context the builder     *)
(* makes (of a function with or without a body, or of a body in which a    *)
(* short-circuit expression has been lowered) and applies the methods of   *)
(* the context to it, as the lowering code does: a value is created in     *)
(* the dfg, appended with add_inst, blocks are created with add_bb and     *)
(* made current with switch_bb.                                            *)
(***************************************************************************)
ContextInputs ==
  {GenerateContext_new([funcs |-> Prelude, values |-> <<>>], EmptyScope, decl).c :
     decl \in {FuncDecl("f", "Int", <<>>, TRUE), FuncDecl("f", "Int", <<"a">>, TRUE),
               FuncDecl("g", "Void", <<"b">>, FALSE)}}
  \cup {generate(LOrExp, LOr(a, b), ExprContext("var", "var")).c}

InitContext ==
  /\ \E c \in ContextInputs :
       /\ program = c.program
       /\ context = ContextOf(c)
  /\ globals = EmptyScope
  /\ pc = "ctx"
  /\ frames = <<>>
  /\ unwound = <<>>
  /\ result = NoErr
  /\ last = [op |-> "new"]
  /\ nsteps = 0

\* the values a caller holds: the two it created last
HeldValues == {v \in 1..Len(dfg(Ctx)) : v >= Len(dfg(Ctx)) - 1}

\* the blocks of the function other than the current one that hold value
InOtherBlock(value) ==
  \E i \in 1..Len(layout(Ctx)) :
    layout(Ctx)[i].bb # context.bb /\ SeqHas(layout(Ctx)[i].insts, value)

Call(r, op, arg) ==
  /\ nsteps < MaxCalls
  /\ nsteps' = nsteps + 1
  /\ program' = r.c.program
  /\ context' = ContextOf(r.c)
  /\ result' = r.err
  /\ pc' = IF r.err # NoErr THEN "error" ELSE pc
  /\ last' = [op |-> op, arg |-> arg, pre |-> Snapshot(Ctx), val |-> r.val]
  /\ UNCHANGED <<globals, frames, unwound>>

\* dfg().new_value().alloc(..)
NewValue ==
  /\ pc = "ctx"
  /\ LET c1 == new_value(Ctx, Alloc)
     IN Call(R(c1, LastValue(c1), NoErr), "new_value", Alloc)

AddInst(value) ==
  /\ pc = "ctx"
  /\ ~InOtherBlock(value)
  /\ Call(add_inst(Ctx, value), "add_inst", value)

AddBb ==
  /\ pc = "ctx"
  /\ Call(add_bb(Ctx), "add_bb", None)

SwitchBb(final_inst, new_bb) ==
  /\ pc = "ctx"
  /\ ~InOtherBlock(final_inst)
  /\ Call(switch_bb(Ctx, final_inst, new_bb), "switch_bb",
          [final_inst |-> final_inst, new_bb |-> new_bb])

NextContext ==
  \/ NewValue
  \/ \E value \in HeldValues : AddInst(value)
  \/ AddBb
  \/ \E final_inst \in {LastValue(Ctx)} :
       \E new_bb \in {None} \cup {layout(Ctx)[i].bb : i \in 1..Len(layout(Ctx))} :
         SwitchBb(final_inst, new_bb)

SpecContext == InitContext /\ [][NextContext]_vars

(***************************************************************************)
(* Loops.  The AST has Stmt::While, Stmt::Break and Stmt::Continue         *)
(* (ast.rs) and the context has the stack loop_jump_pt of (condition       *)
(* block, end block) pairs (ir.rs), but Stmt::generate in stmt.rs has no   *)
(* arm for them and nothing there pushes loop_jump_pt.  The three arms     *)
(* below are modelled from the documented design of statement lowering:    *)
(* While allocates the condition, body and end blocks, jumps to the        *)
(* condition block, lowers the condition there, branches on it to the      *)
(* body or the end block, pushes the pair, lowers the body, jumps back     *)
(* unless the body left no open block, pops the pair and makes the end     *)
(* block current; Break and Continue jump to the end and the condition     *)
(* block of the innermost pair and leave no open block; both are an        *)
(* error when the stack is empty.                                          *)
(***************************************************************************)
StmtBreak == [k |-> "Break"]
StmtContinue == [k |-> "Continue"]

\* the While arm up to the lowering of the body; val is the pushed pair and
\* the body block
Stmt_While_enter(cond, c) ==
  Try(add_bb(c), LAMBDA cb :
  Try(add_bb(cb.c), LAMBDA bd :
  Try(add_bb(bd.c), LAMBDA eb :
    LET c1 == new_value(eb.c, Jump(cb.val))
    IN Try(switch_bb(c1, LastValue(c1), cb.val), LAMBDA s1 :
       Try(generate(LOrExp, cond, s1.c), LAMBDA v :
         LET c2 == new_value(v.c, Branch(v.val, bd.val, eb.val))
         IN Try(switch_bb(c2, LastValue(c2), bd.val), LAMBDA s2 :
              R([s2.c EXCEPT !.loop_jump_pt = Append(@, <<cb.val, eb.val>>)],
                [cond_bb |-> cb.val, body_bb |-> bd.val, end_bb |-> eb.val], NoErr)))))))

\* mutant: the pair of the loop is left on the stack
Stmt_While_exit_no_pop(c) ==
  LET top == c.loop_jump_pt[Len(c.loop_jump_pt)]
      c1 == new_value(c, Jump(top[1]))
  IN switch_bb(c1, LastValue(c1), top[2])

\* the While arm after the lowering of the body
Stmt_While_exit(c) ==
  LET top == c.loop_jump_pt[Len(c.loop_jump_pt)]
      c1 == new_value(c, Jump(top[1]))
  IN Try(switch_bb(c1, LastValue(c1), top[2]), LAMBDA s1 :
       R([s1.c EXCEPT !.loop_jump_pt = SubSeq(@, 1, Len(@) - 1)], None, NoErr))

\* the Break arm
Stmt_Break(c) ==
  IF c.loop_jump_pt = <<>> THEN R(c, None, "InvalidControlTransfer")
  ELSE LET top == c.loop_jump_pt[Len(c.loop_jump_pt)]
           c1 == new_value(c, Jump(top[2]))
       IN switch_bb(c1, LastValue(c1), None)

\* the Continue arm
Stmt_Continue(c) ==
  IF c.loop_jump_pt = <<>> THEN R(c, None, "InvalidControlTransfer")
  ELSE LET top == c.loop_jump_pt[Len(c.loop_jump_pt)]
           c1 == new_value(c, Jump(top[1]))
       IN switch_bb(c1, LastValue(c1), None)

loop_stmt_generate(item, c) ==
  CASE item.k = "Break" -> Stmt_Break(c)
    [] item.k = "Continue" -> Stmt_Continue(c)
    [] OTHER -> stmt_generate(item, c)

(***************************************************************************)
(* SpecLoop lowers the statements of a function body with loops, one step  *)
(* per statement.  frames holds one entry per While arm and per Block arm  *)
(* on the call stack; the entry of a While arm says whether its body (one  *)
(* statement) has been lowered.                                            *)
(***************************************************************************)
LoopItems == {StmtBreak, StmtContinue, StmtAssign("a", Num(1))}
LoopConds == {a, Num(1)}

WhileFrame(target) == [kind |-> "while", cond_bb |-> target.cond_bb,
                       body_bb |-> target.body_bb, end_bb |-> target.end_bb,
                       done |-> FALSE]
BlockFrame == [kind |-> "block", cond_bb |-> None, body_bb |-> None, end_bb |-> None,
               done |-> FALSE]

Loops(fr) == SelectSeq(fr, LAMBDA f : f.kind = "while")

\* a statement may start: in a block, or as the body of a While arm
CanStart ==
  IF frames = <<>> THEN TRUE
  ELSE frames[Len(frames)].kind = "block" \/ ~frames[Len(frames)].done

\* a statement has been lowered: it was the body if a While arm is waiting
StmtDone(fr) ==
  IF fr # <<>> /\ fr[Len(fr)].kind = "while"
  THEN [fr EXCEPT ![Len(fr)].done = TRUE]
  ELSE fr

InitLoop ==
  /\ LET c == ExprContext("var", "unbound")
     IN /\ program = c.program
        /\ context = ContextOf(c)
  /\ globals = EmptyScope
  /\ pc = "loop"
  /\ frames = <<>>
  /\ unwound = <<>>
  /\ result = "none"
  /\ last = [op |-> "init"]
  /\ nsteps = 0

LoopStep(r, op, arg, fr) ==
  /\ program' = r.c.program
  /\ context' = ContextOf(r.c)
  /\ result' = IF r.err # NoErr THEN r.err ELSE result
  /\ pc' = IF r.err # NoErr THEN "error" ELSE pc
  /\ frames' = IF r.err # NoErr THEN <<>> ELSE fr
  /\ unwound' = IF r.err # NoErr THEN frames ELSE unwound
  /\ last' = [op |-> op, arg |-> arg, pre |-> Snapshot(Ctx), err |-> r.err]
  /\ UNCHANGED globals

LoopStmt(item) ==
  /\ pc = "loop"
  /\ CanStart
  /\ nsteps < MaxSteps
  /\ nsteps' = nsteps + 1
  /\ LoopStep(loop_stmt_generate(item, Ctx), "LoopStmt", item, StmtDone(frames))

EnterWhile(cond) ==
  /\ pc = "loop"
  /\ CanStart
  /\ nsteps < MaxSteps
  /\ Len(Loops(frames)) < MaxDepth
  /\ nsteps' = nsteps + 1
  /\ LET r == Stmt_While_enter(cond, Ctx)
     IN LoopStep(r, "EnterWhile", cond,
                 IF r.err # NoErr THEN frames ELSE Append(frames, WhileFrame(r.val)))

ExitWhile ==
  /\ pc = "loop"
  /\ frames # <<>>
  /\ frames[Len(frames)].kind = "while"
  /\ frames[Len(frames)].done
  /\ LoopStep(Stmt_While_exit(Ctx), "ExitWhile", frames[Len(frames)],
              StmtDone(SubSeq(frames, 1, Len(frames) - 1)))
  /\ UNCHANGED nsteps

LoopEnterBlock ==
  /\ pc = "loop"
  /\ CanStart
  /\ nsteps < MaxSteps
  /\ Len(frames) < 2 * MaxDepth
  /\ nsteps' = nsteps + 1
  /\ LoopStep(R(Stmt_Block_enter(Ctx), None, NoErr), "EnterBlock", NoExp,
              Append(frames, BlockFrame))

LoopExitBlock ==
  /\ pc = "loop"
  /\ frames # <<>>
  /\ frames[Len(frames)].kind = "block"
  /\ LoopStep(R(Stmt_Block_exit(Ctx), None, NoErr), "ExitBlock", frames[Len(frames)],
              StmtDone(SubSeq(frames, 1, Len(frames) - 1)))
  /\ UNCHANGED nsteps

NextLoop ==
  \/ \E item \in LoopItems : LoopStmt(item)
  \/ \E cond \in LoopConds : EnterWhile(cond)
  \/ ExitWhile
  \/ LoopEnterBlock
  \/ LoopExitBlock

SpecLoop == InitLoop /\ [][NextLoop]_vars

(***************************************************************************)
(* Properties                                                              *)
(***************************************************************************)
Funcs == 1..Len(program.funcs)

InstsOf(fd) == {fd.layout[i].insts[j] : <<i, j>> \in
                  {<<i, j>> \in (1..Len(fd.layout)) \X (1..Len(fd.dfg)) :
                     j <= Len(fd.layout[i].insts)}}

Depth == Len(context.symbol)

\* C1: once generate_program has returned Ok, every basic block of every
\* function is non-empty and its last instruction is a return, jump or branch.
C1_EveryBlockTerminated ==
  pc = "done" =>
    \A f \in Funcs :
      LET fd == program.funcs[f]
      IN \A i \in 1..Len(fd.layout) :
           LET is == fd.layout[i].insts
           IN Len(is) > 0 /\ IsTerminator(fd.dfg[is[Len(is)]])

\* a finished unit with a function of three blocks, a block that ended in
\* a store and an empty block before the pass
C1_Witness ==
  /\ pc = "done"
  /\ \E f \in Funcs : Len(program.funcs[f].layout) >= 3
  /\ \E f \in Funcs :
       LET fd == program.funcs[f]
       IN \E i \in 1..Len(fd.layout) :
            LET is == fd.layout[i].insts
            IN Len(is) >= 2 /\ fd.dfg[is[Len(is) - 1]].kind = "Store"
  /\ \E f \in Funcs :
       LET fd == program.funcs[f]
       IN \E i \in 1..Len(fd.layout) : Len(fd.layout[i].insts) = 1

\* C2: in every reachable state each block holds at most one terminator and
\* nothing after it (a terminator is never followed by another instruction).
C2_NothingAfterTerminator ==
  \A f \in Funcs :
    LET fd == program.funcs[f]
    IN \A i \in 1..Len(fd.layout) :
         LET is == fd.layout[i].insts
         IN \A j \in 1..Len(is) : IsTerminator(fd.dfg[is[j]]) => j = Len(is)

\* C3: when the lowering of a block statement fails, the scope depth after
\* the failure equals the depth before the (outermost failing) block was entered.
C3_ScopePoppedOnError ==
  (pc = "error" /\ unwound # <<>>) => Depth = Len(unwound[1].symbol)

\* C4: while a function body is lowered the scope depth is one more than the
\* number of open block statements, each block was entered at the depth of
\* its nesting level, and leaving a block restores the depth it was entered at.
C4_ScopesPaired ==
  pc = "body" =>
    /\ Depth = 1 + Len(frames)
    /\ \A i \in 1..Len(frames) : Len(frames[i].symbol) = i
    /\ last.op = "ExitBlock" => Depth = Len(last.arg.symbol)

\* a nested block that holds a return statement has just been left
C4_Witness ==
  /\ pc = "body"
  /\ last.op = "ExitBlock"
  /\ Len(frames) = 1
  /\ \E v \in (last.arg.ndfg + 1)..Len(dfg(Ctx)) :
       /\ dfg(Ctx)[v].kind = "Return"
       /\ v \in InstsOf(program.funcs[context.func])

\* the state after a step that raised an error: generate_program has
\* returned exactly that error, and Ok is returned only when no step failed
C9_Aborted ==
  /\ (last.op # "init" /\ last.err # NoErr) => (pc = "error" /\ result = last.err)
  /\ pc = "error" => (result \notin {"none", "Ok"} /\ last.err = result)
  /\ pc = "done" => (result = "Ok" /\ last.err = NoErr)

\* once an error is returned nothing is lowered any more
C9_NothingAfterError ==
  [][pc = "error" => (pc' = "error" /\ program' = program /\ globals' = globals
                      /\ context' = context /\ result' = result)]_vars

\* C9: a step that raises an error ends the compilation: generate_program has
\* returned exactly that error, no program is returned, and from then on
\* nothing is lowered: no instruction, block, value or binding is added.
C9_FirstErrorAborts == []C9_Aborted /\ C9_NothingAfterError

\* an item failed inside a function body while the unit could have gone on
C9_Witness ==
  /\ pc = "error"
  /\ last.op = "LowerItem"
  /\ nsteps < MaxSteps
  /\ result = "UndefinedVariable"

IsLocalDecl(item) == item.k \in {"ConstDecl", "VarDecl"}

\* the error that stops a local declaration before its first name is bound
ErrBeforeBind(item, pre) ==
  IF item.k = "ConstDecl"
  THEN IF Eval(item.defs[1].init_val, pre.symbol, globals).ok THEN NoErr
       ELSE "ConstexprRequired"
  ELSE IF item.defs[1].init_val = NoExp THEN NoErr
       ELSE IF last.err \in {"UndefinedVariable", "PushKeyError"} THEN last.err ELSE NoErr

HasDuplicate(seq) == \E i, j \in 1..Len(seq) : i # j /\ seq[i] = seq[j]

\* C10: a local declaration of a name bound in the innermost scope fails with
\* Redefinition, and so does a parameter list that names a parameter twice; a
\* declaration of a name bound only in an outer scope succeeds and makes the
\* new symbol the visible one; leaving the block restores the bindings that
\* were visible when it was entered.
C10_RedefinitionAndShadowing ==
  /\ (last.op = "LowerItem" /\ IsLocalDecl(last.arg) /\ Len(last.arg.defs) = 1
        /\ ErrBeforeBind(last.arg, last.pre) = NoErr) =>
       LET name == last.arg.defs[1].ident
           pre == last.pre.symbol
       IN IF name \in DOMAIN pre[Len(pre)]
          THEN pc = "error" /\ result = "Redefinition" /\ context.symbol = pre
          ELSE /\ pc = "body"
               /\ name \in DOMAIN context.symbol[Depth]
               /\ \A i \in 1..(Depth - 1) : context.symbol[i] = pre[i]
               /\ context.symbol[Depth][name].kind
                    = (IF last.arg.k = "ConstDecl" THEN "Const" ELSE "Var")
               /\ SymbolTable_get(context.symbol, globals, name) = context.symbol[Depth][name]
  /\ (last.op = "DeclFunc" /\ last.arg.has_body /\ HasDuplicate(last.arg.params)) =>
       (pc = "error" /\ result = "Redefinition")
  /\ (pc = "body" /\ last.op = "ExitBlock") =>
       \A name \in Names :
         SymbolTable_get(context.symbol, globals, name)
           = SymbolTable_get(last.arg.symbol, globals, name)

\* a name bound in the function scope was declared again in a nested block,
\* and that block has been left
C10_Witness ==
  /\ pc = "body"
  /\ last.op = "ExitBlock"
  /\ \E name \in Names :
       /\ name \in DOMAIN context.symbol[Depth]
       /\ name \in DOMAIN last.pre.symbol[Depth + 1]
       /\ last.pre.symbol[Depth + 1][name] # context.symbol[Depth][name]

\* a declaration of a name of the same scope was rejected
C10_WitnessRedefinition ==
  /\ pc = "error"
  /\ result = "Redefinition"
  /\ last.op = "LowerItem"
  /\ last.arg.defs[1].ident \in DOMAIN last.pre.symbol[Len(last.pre.symbol)]

(***************************************************************************)
(* Properties of expression lowering (SpecExpr)                            *)
(***************************************************************************)
CurFunc == program.funcs[context.func]

\* the instructions appended to the layout by the operation last applied
NewInsts == {v \in InstsOf(CurFunc) : v > last.pre.ndfg}

NewInstsOfKind(kind) == {v \in NewInsts : CurFunc.dfg[v].kind = kind}

\* the block whose instruction list holds v
BlockOf(v) ==
  CHOOSE i \in 1..Len(CurFunc.layout) : SeqHas(CurFunc.layout[i].insts, v)

Lowered == pc = "generated" /\ result = NoErr

\* the number of || and && nodes of exp that reach generate_with_short_circuiting
RECURSIVE RuntimeShortCircuits(_, _, _)
RuntimeShortCircuits(t, exp, folds) ==
  IF (folds \/ Level(exp) < t) /\ Eval(exp, last.pre.symbol, globals).ok THEN 0
  ELSE CASE exp.k = "Or" ->
              1 + RuntimeShortCircuits(LOrExp, exp.lhs, FALSE)
                + RuntimeShortCircuits(LAndExp, exp.rhs, FALSE)
         [] exp.k = "And" ->
              1 + RuntimeShortCircuits(LAndExp, exp.lhs, FALSE)
                + RuntimeShortCircuits(EqExp, exp.rhs, FALSE)
         [] exp.k \in BinKinds ->
              RuntimeShortCircuits(LOrExp, exp.lhs, TRUE)
                + RuntimeShortCircuits(LOrExp, exp.rhs, TRUE)
         [] exp.k \in {"Unary", "Paren"} -> RuntimeShortCircuits(LOrExp, exp.exp, TRUE)
         [] OTHER -> 0

RootShortCircuit ==
  /\ Lowered
  /\ last.arg.k \in {"Or", "And"}
  /\ ~Eval(last.arg, last.pre.symbol, globals).ok

\* the values of the root operator, by the order generate_with_short_circuiting
\* creates them in: ..., branch, <right operand>, rhs_neq_zero, rhs_store, jump, load
RootBranch ==
  CHOOSE v \in NewInstsOfKind("Branch") : CurFunc.dfg[v].false_bb = context.bb

RootRhsInsts == {v \in NewInsts : RootBranch < v /\ v < last.val - 3}

\* C5: no instruction of the right operand of a runtime-lowered || or && is in
\* the block that ends with the operator's conditional branch; each is in the
\* right-operand block or in a block created after it.
C5_RhsInRightOperandBlock ==
  RootShortCircuit =>
    \A v \in RootRhsInsts :
      /\ BlockOf(v) # BlockOf(RootBranch)
      /\ CurFunc.layout[BlockOf(v)].bb >= CurFunc.dfg[RootBranch].true_bb
      /\ CurFunc.layout[BlockOf(v)].bb # CurFunc.dfg[RootBranch].false_bb

\* C6: lowering an expression with n runtime-lowered short-circuit operators
\* creates 2n blocks, n conditional branches and n jumps; every branch ends
\* its block and targets two distinct new blocks, the block of its first
\* target ends with the only jump to its second target, and the second
\* target (the join block) starts with a load from an allocated slot; the
\* value returned for a short-circuit root is the load of its join block.
C6_ShortCircuitShape ==
  Lowered =>
    LET n == RuntimeShortCircuits(LOrExp, last.arg, TRUE)
        fd == CurFunc
        old == Len(last.pre.layout)
    IN /\ Len(fd.layout) = old + 2 * n
       /\ Cardinality(NewInstsOfKind("Branch")) = n
       /\ Cardinality(NewInstsOfKind("Jump")) = n
       /\ \A br \in NewInstsOfKind("Branch") :
            LET blk == fd.layout[BlockOf(br)].insts
                t == fd.dfg[br].true_bb
                j == fd.dfg[br].false_bb
                tis == insts(Ctx, t)
                jis == insts(Ctx, j)
            IN /\ blk[Len(blk)] = br
               /\ t # j /\ t > old /\ j > old
               /\ Len(tis) > 0 /\ fd.dfg[tis[Len(tis)]] = Jump(j)
               /\ Cardinality({v \in NewInstsOfKind("Jump") : fd.dfg[v].target = j}) = 1
               /\ Cardinality({v \in NewInstsOfKind("Branch") :
                                 j \in {fd.dfg[v].true_bb, fd.dfg[v].false_bb}}) = 1
               /\ Len(jis) > 0 /\ fd.dfg[jis[1]].kind = "Load"
               /\ fd.dfg[fd.dfg[jis[1]].src].kind = "Alloc"
               /\ \E st \in NewInstsOfKind("Store") :
                    /\ BlockOf(st) = BlockOf(br)
                    /\ fd.dfg[st].dest = fd.dfg[jis[1]].src
       /\ RootShortCircuit =>
            /\ insts(Ctx, context.bb)[1] = last.val
            /\ CurFunc.dfg[last.val].kind = "Load"

\* an expression with two runtime-lowered short-circuit operators was lowered
C6_Witness ==
  /\ RootShortCircuit
  /\ RuntimeShortCircuits(LOrExp, last.arg, TRUE) = 2
  /\ Len(CurFunc.layout) = 5

\* C7: when the constant evaluator succeeds on an expression, expr::generate
\* appends no instruction, creates no block, keeps the current block and
\* returns an integer immediate of the evaluator's result.
C7_ConstantsFold ==
  (pc = "generated" /\ Eval(last.arg, last.pre.symbol, globals).ok) =>
    /\ result = NoErr
    /\ CurFunc.layout = last.pre.layout
    /\ context.bb = last.pre.bb
    /\ context.symbol = last.pre.symbol
    /\ CurFunc.dfg[last.val] = Integer(Eval(last.arg, last.pre.symbol, globals).v)

\* an operator expression over a literal and a bound constant was folded
C7_Witness ==
  /\ pc = "generated"
  /\ last.arg = Add(a, "+", Num(2))
  /\ Eval(last.arg, last.pre.symbol, globals) = Constexpr(4)
  /\ CurFunc.dfg[last.val] = Integer(4)

\* C8: an identifier bound to Const lowers to an integer immediate of its
\* value without any instruction; one bound to Var appends exactly one
\* load from its slot, which is the value returned; an unbound one fails
\* with an undefined-variable error and emits nothing.
C8_IdentifierUse ==
  (pc \in {"lval", "generated"} /\ last.arg.k = "LVal") =>
    LET symbol == SymbolTable_get(last.pre.symbol, globals, last.arg.ident)
        cur == BBIndex(CurFunc.layout, last.pre.bb)
    IN CASE symbol.kind = "Const" ->
              /\ result = NoErr
              /\ CurFunc.layout = last.pre.layout
              /\ CurFunc.dfg[last.val] = Integer(symbol.value)
              /\ \A v \in (last.pre.ndfg + 1)..Len(CurFunc.dfg) :
                   CurFunc.dfg[v].kind # "Load"
         [] symbol.kind = "Var" ->
              /\ result = NoErr
              /\ CurFunc.dfg[last.val] = Load(symbol.alloc)
              /\ CurFunc.layout =
                   [last.pre.layout EXCEPT ![cur].insts = Append(@, last.val)]
              /\ Len(CurFunc.dfg) = last.pre.ndfg + 1
         [] symbol.kind = "None" ->
              /\ result = "UndefinedVariable"
              /\ CurFunc.layout = last.pre.layout
              /\ Len(CurFunc.dfg) = last.pre.ndfg

\* LVal::generate_value met a constant, a variable and an unbound name
C8_WitnessConst ==
  /\ pc = "lval"
  /\ SymbolTable_get(last.pre.symbol, globals, last.arg.ident).kind = "Const"
  /\ CurFunc.dfg[last.val] = Integer(2)

C8_Witness ==
  /\ pc = "lval"
  /\ SymbolTable_get(last.pre.symbol, globals, last.arg.ident).kind = "Var"
  /\ CurFunc.dfg[last.val].kind = "Load"

\* the values of the root operator by what they are: the load returned, the
\* result slot it reads, the store into the slot that is in the right-operand
\* block, and the comparison the branch tests
RootResult == CurFunc.dfg[last.val].src

RootRhsStore ==
  CHOOSE v \in NewInstsOfKind("Store") :
    /\ CurFunc.dfg[v].dest = RootResult
    /\ CurFunc.layout[BlockOf(v)].bb = CurFunc.dfg[RootBranch].true_bb

RootInitStore ==
  CHOOSE v \in NewInstsOfKind("Store") :
    /\ CurFunc.dfg[v].dest = RootResult
    /\ CurFunc.layout[BlockOf(v)].bb # CurFunc.dfg[RootBranch].true_bb

\* C19: the value stored into the result slot in the right-operand block of
\* a runtime-lowered || or && is a comparison `x != 0`, so that the join
\* block loads 0 or 1.
C19_StoresRhsNeqZero ==
  RootShortCircuit =>
    LET stored == CurFunc.dfg[CurFunc.dfg[RootRhsStore].value]
    IN /\ stored.kind = "Binary"
       /\ stored.op = "NotEq"
       /\ CurFunc.dfg[stored.rhs] = Integer(0)

\* the position of instruction v in the instruction list of its block
PosOf(v) ==
  CHOOSE j \in 1..Len(CurFunc.layout[BlockOf(v)].insts) :
    CurFunc.layout[BlockOf(v)].insts[j] = v

\* u comes before v in the order of the blocks and of their instructions
Precedes(u, v) ==
  \/ BlockOf(u) < BlockOf(v)
  \/ BlockOf(u) = BlockOf(v) /\ PosOf(u) < PosOf(v)

\* the instructions the lowering of the left operand of the root appended:
\* their values are created after the initial store and before the comparison
RootLhsInsts ==
  {v \in NewInsts : RootInitStore < v /\ v < CurFunc.dfg[RootBranch].cond}

\* C20: for a runtime-lowered || or && the allocation of the result slot and
\* the store of the short-circuit value (1 for ||, 0 for &&) come before
\* every instruction of the left operand, and the comparison of the left
\* operand with zero (== for ||, != for &&) is the instruction right
\* before the conditional branch.
C20_SlotBeforeLeftOperand ==
  RootShortCircuit =>
    LET fd == CurFunc
        cond == fd.dfg[RootBranch].cond
    IN /\ Precedes(RootResult, RootInitStore)
       /\ fd.dfg[fd.dfg[RootInitStore].value]
            = Integer(IF last.arg.k = "Or" THEN 1 ELSE 0)
       /\ \A v \in RootLhsInsts : Precedes(RootInitStore, v)
       /\ BlockOf(cond) = BlockOf(RootBranch)
       /\ PosOf(cond) = PosOf(RootBranch) - 1
       /\ fd.dfg[cond].kind = "Binary"
       /\ fd.dfg[cond].op = (IF last.arg.k = "Or" THEN "Eq" ELSE "NotEq")
       /\ fd.dfg[fd.dfg[cond].rhs] = Integer(0)

\* the number of arithmetic, relational, equality and unary -, ! nodes of exp
\* that reach the operator arm of their generate_value
RECURSIVE RuntimeOperators(_, _, _)
RuntimeOperators(t, exp, folds) ==
  IF (folds \/ Level(exp) < t) /\ Eval(exp, last.pre.symbol, globals).ok THEN 0
  ELSE CASE exp.k = "Or" ->
              RuntimeOperators(LOrExp, exp.lhs, FALSE)
                + RuntimeOperators(LAndExp, exp.rhs, FALSE)
         [] exp.k = "And" ->
              RuntimeOperators(LAndExp, exp.lhs, FALSE)
                + RuntimeOperators(EqExp, exp.rhs, FALSE)
         [] exp.k \in BinKinds ->
              1 + RuntimeOperators(LOrExp, exp.lhs, TRUE)
                + RuntimeOperators(LOrExp, exp.rhs, TRUE)
         [] exp.k = "Unary" ->
              (IF exp.op = "+" THEN 0 ELSE 1) + RuntimeOperators(LOrExp, exp.exp, TRUE)
         [] exp.k = "Paren" -> RuntimeOperators(LOrExp, exp.exp, TRUE)
         [] OTHER -> 0

\* the blocks the last instruction of the i-th block of the layout transfers to
BlockSucc(i) ==
  LET is == CurFunc.layout[i].insts
      term == IF Len(is) = 0 THEN Alloc ELSE CurFunc.dfg[is[Len(is)]]
      targets == CASE term.kind = "Branch" -> {term.true_bb, term.false_bb}
                   [] term.kind = "Jump" -> {term.target}
                   [] OTHER -> {}
  IN {j \in 1..Len(CurFunc.layout) : CurFunc.layout[j].bb \in targets}

RECURSIVE ReachFrom(_, _)
ReachFrom(blocks, n) ==
  IF n = 0 THEN blocks
  ELSE ReachFrom(blocks \cup UNION {BlockSucc(i) : i \in blocks}, n - 1)

\* u is executed before v on every path that executes both: earlier in the
\* same block, or in a block from which control reaches the block of v
ExecutesBefore(u, v) ==
  IF BlockOf(u) = BlockOf(v) THEN PosOf(u) < PosOf(v)
  ELSE /\ BlockOf(v) \in ReachFrom(BlockSucc(BlockOf(u)), Len(CurFunc.layout))
       /\ BlockOf(u) \notin ReachFrom(BlockSucc(BlockOf(v)), Len(CurFunc.layout))

RootOperator ==
  /\ Lowered
  /\ last.arg.k \in BinKinds
  /\ ~Eval(last.arg, last.pre.symbol, globals).ok

RootUnary ==
  /\ Lowered
  /\ last.arg.k = "Unary"
  /\ ~Eval(last.arg, last.pre.symbol, globals).ok

\* the last instruction of the block that is current after the lowering
LastEmitted ==
  LET cur == insts(Ctx, context.bb) IN cur[Len(cur)]

\* an operand that is a constant is an integer immediate, one that is a
\* runtime-lowered arithmetic operator is the instruction of that operator
OperandValue(exp, v) ==
  LET value == Eval(exp, last.pre.symbol, globals)
  IN /\ value.ok => CurFunc.dfg[v] = Integer(value.v)
     /\ (~value.ok /\ exp.k \in BinKinds) =>
          /\ v \in NewInsts
          /\ CurFunc.dfg[v].kind = "Binary"
          /\ CurFunc.dfg[v].op = BinaryOp(exp.op)

\* C21: a runtime-lowered arithmetic, relational or equality node appends
\* one binary instruction of its operator over the values of its operands,
\* after every instruction of its operands, and every instruction of the
\* left operand comes before every instruction of the right operand; a
\* lowering appends one binary instruction per such node and per unary - or
\* ! node (and the two comparisons of each short-circuit operator); unary +
\* appends nothing of its own, unary - appends `0 - x` and ! appends `x == 0`.
C21_OneInstructionPerOperator ==
  /\ Lowered =>
       Cardinality(NewInstsOfKind("Binary"))
         = RuntimeOperators(LOrExp, last.arg, TRUE)
             + 2 * RuntimeShortCircuits(LOrExp, last.arg, TRUE)
  /\ RootOperator =>
       LET root == last.val
           d == CurFunc.dfg[root]
           LhsInsts == {v \in NewInsts : v <= d.lhs}
           RhsInsts == {v \in NewInsts : d.lhs < v /\ v <= d.rhs}
       IN /\ d.kind = "Binary"
          /\ d.op = BinaryOp(last.arg.op)
          /\ root = LastEmitted
          /\ root = Len(CurFunc.dfg)
          /\ last.pre.ndfg < d.lhs /\ d.lhs < d.rhs /\ d.rhs = root - 1
          /\ OperandValue(last.arg.lhs, d.lhs)
          /\ OperandValue(last.arg.rhs, d.rhs)
          /\ NewInsts = LhsInsts \cup RhsInsts \cup {root}
          /\ \A u \in LhsInsts : \A v \in RhsInsts : ExecutesBefore(u, v)
          /\ \A u \in LhsInsts \cup RhsInsts : ExecutesBefore(u, root)
  /\ RootUnary =>
       LET root == last.val
           d == CurFunc.dfg[root]
       IN /\ root = Len(CurFunc.dfg)
          /\ IF last.arg.op = "+"
             THEN /\ Cardinality(NewInstsOfKind("Binary"))
                       = RuntimeOperators(LOrExp, last.arg.exp, TRUE)
                           + 2 * RuntimeShortCircuits(LOrExp, last.arg.exp, TRUE)
                  /\ OperandValue(last.arg.exp, root)
             ELSE /\ d.kind = "Binary"
                  /\ root = LastEmitted
                  /\ \A u \in NewInsts \ {root} : ExecutesBefore(u, root)
                  /\ IF last.arg.op = "-"
                     THEN /\ d.op = "Sub"
                          /\ d.lhs = root - 1 /\ CurFunc.dfg[d.lhs] = Integer(0)
                          /\ d.rhs = root - 2
                          /\ OperandValue(last.arg.exp, d.rhs)
                     ELSE /\ d.op = "Eq"
                          /\ d.rhs = root - 1 /\ CurFunc.dfg[d.rhs] = Integer(0)
                          /\ d.lhs = root - 2
                          /\ OperandValue(last.arg.exp, d.lhs)

\* a left-associative chain of two additions over variables was lowered:
\* load, load, add, load, add
C21_Witness ==
  /\ RootOperator
  /\ last.arg = Add(Add(a, "+", b), "+", a)
  /\ Cardinality(NewInstsOfKind("Binary")) = 2
  /\ Cardinality(NewInstsOfKind("Load")) = 3
  /\ CurFunc.dfg[CurFunc.dfg[last.val].lhs].kind = "Binary"
  /\ CurFunc.dfg[CurFunc.dfg[last.val].rhs].kind = "Load"

\* an operator whose operands are short-circuit expressions was lowered: the
\* instructions of its operands are spread over several blocks
C21_WitnessBlocks ==
  /\ RootOperator
  /\ Len(CurFunc.layout) >= 7
  /\ Cardinality({BlockOf(v) : v \in NewInsts}) >= 6

\* unary - and ! over a variable, and unary + over a sum, were lowered
C21_WitnessUnary ==
  /\ RootUnary
  /\ last.arg.op = "-"
  /\ last.arg.exp = a
  /\ CurFunc.dfg[last.val] = Binary("Sub", last.val - 1, last.val - 2)

C21_WitnessPlus ==
  /\ RootUnary
  /\ last.arg.op = "+"
  /\ last.arg.exp.k = "Paren"
  /\ Cardinality(NewInstsOfKind("Binary")) = 1

(***************************************************************************)
(* Properties of statement lowering and of the program builder (Spec)      *)
(***************************************************************************)
\* the function whose body the last step worked on
LastFunc == program.funcs[context.func]

\* the instructions the last step appended, in any block of that function
StepInsts == {v \in InstsOf(LastFunc) : v > last.pre.ndfg}

LastItem(k) == last.op = "LowerItem" /\ last.arg.k = k

\* C11: an assignment whose target resolves to no symbol or to a constant
\* fails before anything of the right-hand side is lowered: no value, no
\* instruction and no block is created; an assignment to a variable that
\* succeeds appends the instructions of the right-hand side and after them
\* exactly one store into the slot of that variable.
C11_AssignTarget ==
  LastItem("Assign") =>
    LET symbol == SymbolTable_get(last.pre.symbol, globals, last.arg.ident)
        fd == LastFunc
        cur == fd.layout[BBIndex(fd.layout, last.pre.bb)].insts
    IN CASE symbol.kind \in {"None", "Const"} ->
              /\ pc = "error"
              /\ result = (IF symbol.kind = "Const" THEN "AssignToConstant"
                           ELSE "UndefinedVariable")
              /\ fd.layout = last.pre.layout
              /\ Len(fd.dfg) = last.pre.ndfg
              /\ context.bb = last.pre.bb
         [] symbol.kind = "Var" ->
              IF last.err # NoErr
              THEN \A v \in StepInsts : fd.dfg[v].kind # "Store" \/ fd.dfg[v].dest # symbol.alloc
              ELSE /\ pc = "body"
                   /\ Cardinality({v \in StepInsts : fd.dfg[v].kind = "Store"
                                                      /\ fd.dfg[v].dest = symbol.alloc}) = 1
                   /\ fd.dfg[Len(fd.dfg)].kind = "Store"
                   /\ fd.dfg[Len(fd.dfg)].dest = symbol.alloc
                   /\ fd.dfg[Len(fd.dfg)].value = Len(fd.dfg) - 1
                   /\ cur[Len(cur)] = Len(fd.dfg)
                   /\ \A v \in StepInsts : v <= Len(fd.dfg)

\* an assignment to a local constant was rejected in a block that already
\* holds instructions
C11_Witness ==
  /\ LastItem("Assign")
  /\ pc = "error"
  /\ result = "AssignToConstant"
  /\ Lookup(last.pre.symbol, Len(last.pre.symbol), last.arg.ident).kind = "Const"
  /\ last.pre.ndfg > 0

\* an assignment to a variable stored the value loaded from another variable
C11_WitnessVar ==
  /\ LastItem("Assign")
  /\ pc = "body"
  /\ last.arg = StmtAssign("b", a)
  /\ LastFunc.dfg[Len(LastFunc.dfg) - 1].kind = "Load"

\* what the implicit-return pass makes of block i of function fd: fd2 is the
\* function after the pass
ImplicitReturnOf(fd, fd2, i) ==
  LET is == fd.layout[i].insts
      is2 == fd2.layout[i].insts
  IN /\ fd2.layout[i].bb = fd.layout[i].bb
     /\ IF Len(is) > 0 /\ fd.dfg[is[Len(is)]].kind \in {"Return", "Jump", "Branch"}
        THEN is2 = is
        ELSE /\ Len(is2) = Len(is) + 1
             /\ SubSeq(is2, 1, Len(is)) = is
             /\ is2[Len(is2)] > Len(fd.dfg)
             /\ LET ret == fd2.dfg[is2[Len(is2)]]
                IN /\ ret.kind = "Return"
                   /\ IF fd.ret = "i32"
                      THEN ret.value # None /\ fd2.dfg[ret.value] = Integer(0)
                      ELSE ret.value = None

EndsWith(fd, i, kind) ==
  LET is == fd.layout[i].insts
  IN Len(is) > 0 /\ fd.dfg[is[Len(is)]].kind = kind

ScopeWithout(symbol, names) ==
  [symbol EXCEPT ![Len(symbol)] = [n \in DOMAIN @ \ names |-> @[n]]]

\* the names declared by the definitions i, i+1, ... of a declaration
NamesFrom(defs, i) == {defs[j].ident : j \in i..Len(defs)}

\* C15: a local constant declaration appends no instruction and creates no
\* block, whether it succeeds or fails; when it succeeds every definition's
\* name is bound in the innermost scope to Const of the value its
\* initializer evaluates to under the bindings made before it, and nothing
\* else is bound; when the first initializer is not a compile-time constant
\* the declaration fails; a return of an expression that evaluates to a
\* constant appends exactly one instruction, the return of an integer
\* immediate of that value, and creates no allocation: after
\* `const int a = 1 + 2; return a;` the body holds only `ret 3`.
C15_ConstDecl ==
  /\ LastItem("ConstDecl") =>
       LET defs == last.arg.defs
           pre == last.pre.symbol
           post == context.symbol
       IN /\ LastFunc.layout = last.pre.layout
          /\ context.bb = last.pre.bb
          /\ \A v \in (last.pre.ndfg + 1)..Len(LastFunc.dfg) :
               LastFunc.dfg[v].kind \notin {"Alloc", "Store", "Load"}
          /\ ~Eval(defs[1].init_val, pre, globals).ok =>
               (pc = "error" /\ result = "ConstexprRequired" /\ post = pre)
          /\ last.err = NoErr =>
               /\ pc = "body"
               /\ ScopeWithout(post, NamesFrom(defs, 1)) = pre
               /\ \A i \in 1..Len(defs) :
                    LET value == Eval(defs[i].init_val,
                                      ScopeWithout(post, NamesFrom(defs, i)), globals)
                    IN /\ value.ok
                       /\ defs[i].ident \in DOMAIN post[Len(post)]
                       /\ post[Len(post)][defs[i].ident] = SymConst(value.v)
  /\ (LastItem("Return") /\ Eval(last.arg.exp, last.pre.symbol, globals).ok) =>
       LET fd == LastFunc
           cur == BBIndex(fd.layout, last.pre.bb)
           ret == Len(fd.dfg)
       IN /\ pc = "body"
          /\ Len(fd.dfg) = last.pre.ndfg + 2
          /\ fd.dfg[ret] = Return(ret - 1)
          /\ fd.dfg[ret - 1] = Integer(Eval(last.arg.exp, last.pre.symbol, globals).v)
          /\ fd.layout = [last.pre.layout EXCEPT ![cur].insts = Append(@, ret)]
  /\ (LastItem("Return") /\ last.arg = StmtReturn(a) /\ last.pre.ndfg = 0
        /\ SymbolTable_get(last.pre.symbol, globals, "a") = SymConst(3)) =>
       /\ LastFunc.dfg = <<Integer(3), Return(1)>>
       /\ LastFunc.layout = <<[bb |-> 1, insts |-> <<2>>]>>

\* `const int a = 1 + 2; return a;` was lowered at the top of a body
C15_Witness ==
  /\ LastItem("Return")
  /\ last.arg = StmtReturn(a)
  /\ context.symbol = <<("a" :> SymConst(3))>>
  /\ LastFunc.dfg = <<Integer(3), Return(1)>>
  /\ LastFunc.layout = <<[bb |-> 1, insts |-> <<2>>]>>

\* a declaration of two constants, the second from the first, was lowered
\* in a block that holds instructions
C15_WitnessTwo ==
  /\ LastItem("ConstDecl")
  /\ pc = "body"
  /\ Len(last.arg.defs) = 2
  /\ context.symbol[Depth]["b"] = SymConst(3)
  /\ Len(LastFunc.layout[1].insts) > 0

\* a constant declaration with a variable as initializer was rejected
C15_WitnessError ==
  /\ LastItem("ConstDecl")
  /\ pc = "error"
  /\ result = "ConstexprRequired"
  /\ SymbolTable_get(last.pre.symbol, globals, "a").kind = "Var"

\* the identifiers an expression mentions
RECURSIVE Idents(_)
Idents(exp) ==
  CASE exp.k = "LVal" -> {exp.ident}
    [] exp.k \in {"Paren", "Unary"} -> Idents(exp.exp)
    [] exp.k \in BinKinds \cup {"Or", "And"} -> Idents(exp.lhs) \cup Idents(exp.rhs)
    [] OTHER -> {}

\* the body `int a = 1; int b = 2;` of a function without parameters
C16_Declared ==
  /\ last.pre.symbol = <<("a" :> SymVar(1)) @@ ("b" :> SymVar(4))>>
  /\ last.pre.layout = <<[bb |-> 1, insts |-> <<1, 3, 4, 6>>]>>
  /\ last.pre.ndfg = 6
  /\ SubSeq(LastFunc.dfg, 1, 6)
       = <<Alloc, Integer(1), Store(2, 1), Alloc, Integer(2), Store(5, 4)>>

\* C16: a variable declaration with a literal initializer appends an
\* allocation and a store of the literal into it and binds the name to Var of
\* that slot, never to a constant; a return of an expression that mentions a
\* variable loads its slot and returns a computed value, not an immediate;
\* and `int a = 1; int b = 2; return a + b * 3;` gives one block that holds,
\* in this order, alloc and store for a, alloc and store for b, load a,
\* load b, mul, add and the return of the add.
C16_VariablesNotFolded ==
  /\ (LastItem("VarDecl") /\ Len(last.arg.defs) = 1 /\ last.err = NoErr
        /\ last.arg.defs[1].init_val.k = "Num") =>
       LET fd == LastFunc
           cur == BBIndex(fd.layout, last.pre.bb)
           alloc == last.pre.ndfg + 1
       IN /\ Len(fd.dfg) = last.pre.ndfg + 3
          /\ fd.dfg[alloc] = Alloc
          /\ fd.dfg[alloc + 1] = Integer(last.arg.defs[1].init_val.n)
          /\ fd.dfg[alloc + 2] = Store(alloc + 1, alloc)
          /\ fd.layout = [last.pre.layout EXCEPT
                             ![cur].insts = @ \o <<alloc, alloc + 2>>]
          /\ SymbolTable_get(context.symbol, globals, last.arg.defs[1].ident)
               = SymVar(alloc)
  /\ (LastItem("Return") /\ last.err = NoErr) =>
       \A name \in Idents(last.arg.exp) :
         LET symbol == SymbolTable_get(last.pre.symbol, globals, name)
         IN symbol.kind = "Var" =>
              /\ \E v \in StepInsts : LastFunc.dfg[v] = Load(symbol.alloc)
              /\ LastFunc.dfg[LastFunc.dfg[Len(LastFunc.dfg)].value].kind # "Integer"
  /\ (LastItem("Return") /\ last.arg.exp = Add(a, "+", Mul(b, "*", Num(3)))
        /\ C16_Declared) =>
       /\ pc = "body"
       /\ LastFunc.dfg
            = <<Alloc, Integer(1), Store(2, 1), Alloc, Integer(2), Store(5, 4),
                Load(1), Load(4), Integer(3), Binary("Mul", 8, 9),
                Binary("Add", 7, 10), Return(11)>>
       /\ LastFunc.layout = <<[bb |-> 1, insts |-> <<1, 3, 4, 6, 7, 8, 10, 11, 12>>]>>

\* `int a = 1; int b = 2; return a + b * 3;` was lowered as the body of a
\* function without parameters
C16_Witness ==
  /\ LastItem("Return")
  /\ last.arg.exp = Add(a, "+", Mul(b, "*", Num(3)))
  /\ C16_Declared
  /\ Len(LastFunc.dfg) = 12
  /\ LastFunc.params = <<>>

\* name is defined (not only declared) in the global scope
GloballyDefined(name) == name \in DOMAIN globals /\ globals[name].defined

\* a step of generate_program that handles a top-level declaration
TopLevel(op) == pc = "decl" /\ last'.op = op

\* C17: the definition of a function, a global constant or a global variable
\* whose name is already defined in the global scope fails with Redefinition,
\* ends the compilation and leaves the global scope as it was, and one whose
\* name is not defined binds it; a function declaration without a body never
\* fails on a name that is defined: it adds the function to the program
\* without any block, lowers nothing and leaves no context.
C17_GlobalRedefinition ==
  [][/\ (TopLevel("DeclFunc") /\ last'.arg.has_body) =>
          IF GloballyDefined(last'.arg.ident)
          THEN pc' = "error" /\ result' = "Redefinition" /\ globals' = globals
          ELSE pc' = "body" =>
                 globals'[last'.arg.ident]
                   = [sym |-> SymFunc(Len(program'.funcs)), defined |-> TRUE]
     /\ (TopLevel("DeclGlobal") /\ last'.arg.ty = "Int" /\ Len(last'.arg.list) = 1
           /\ (IF last'.arg.list[1].init_val = NoExp THEN ~last'.arg.is_const
                ELSE Eval(last'.arg.list[1].init_val, <<>>, globals).ok)) =>
          LET name == last'.arg.list[1].ident
          IN IF GloballyDefined(name)
             THEN pc' = "error" /\ result' = "Redefinition" /\ globals' = globals
             ELSE /\ pc' = "decl"
                  /\ globals'[name].defined
                  /\ globals'[name].sym.kind
                       = (IF last'.arg.is_const THEN "Const" ELSE "Var")
     /\ (TopLevel("DeclFunc") /\ ~last'.arg.has_body) =>
          /\ pc' = "decl"
          /\ result' = result
          /\ Len(program'.funcs) = Len(program.funcs) + 1
          /\ program'.funcs[Len(program'.funcs)].layout = <<>>
          /\ program'.funcs[Len(program'.funcs)].name = last'.arg.ident
          /\ SubSeq(program'.funcs, 1, Len(program.funcs)) = program.funcs
          /\ context' = NoContext
          /\ \A name \in DOMAIN globals : globals'[name] = globals[name]
          /\ last'.arg.ident \in DOMAIN globals'
    ]_vars

\* the definition of a function whose name is already a defined function
\* was rejected
C17_Witness ==
  /\ pc = "error"
  /\ result = "Redefinition"
  /\ last.op = "DeclFunc"
  /\ ~HasDuplicate(last.arg.params)
  /\ globals[last.arg.ident].sym.kind = "Func"
  /\ globals[last.arg.ident].sym.func < Len(program.funcs)

\* a global variable, then a global constant of the same name
C17_WitnessVar ==
  /\ pc = "error"
  /\ result = "Redefinition"
  /\ last.op = "DeclGlobal"
  /\ last.arg.is_const
  /\ globals["a"].sym.kind = "Var"

\* a function was declared without a body after it had been defined
C17_WitnessDecl ==
  /\ pc = "decl"
  /\ last.op = "DeclFunc"
  /\ ~last.arg.has_body
  /\ globals[last.arg.ident].defined
  /\ program.funcs[Len(program.funcs)].layout = <<>>

\* every block is once in the block list and every instruction once in the
\* instruction lists of function fd, and both are handles of its dfg
KeysUnique(fd) ==
  /\ \A i, j \in 1..Len(fd.layout) : fd.layout[i].bb = fd.layout[j].bb => i = j
  /\ \A i \in 1..Len(fd.layout) :
       /\ fd.layout[i].bb \in 1..Len(fd.dfg_bbs)
       /\ \A p \in 1..Len(fd.layout[i].insts) :
            /\ fd.layout[i].insts[p] \in 1..Len(fd.dfg)
            /\ \A j \in 1..Len(fd.layout) : \A q \in 1..Len(fd.layout[j].insts) :
                 fd.layout[i].insts[p] = fd.layout[j].insts[q] => (i = j /\ p = q)

\* C22: generate_program never returns the duplicate-key error: every
\* block of a function is in its block list once, every instruction is in
\* the instruction lists of its function once, and the instructions and
\* blocks a step appends are values and blocks created in that step.
C22_NoPushKeyError ==
  /\ result # "PushKeyError"
  /\ \A f \in Funcs : KeysUnique(program.funcs[f])
  /\ (last.op = "LowerItem" /\ pc # "decl") =>
       /\ \A v \in InstsOf(LastFunc) :
            v <= last.pre.ndfg =>
              v \in InstsOf([layout |-> last.pre.layout, dfg |-> LastFunc.dfg])
       /\ \A i \in 1..Len(LastFunc.layout) :
            i > Len(last.pre.layout) =>
              \A j \in 1..Len(last.pre.layout) :
                LastFunc.layout[i].bb # last.pre.layout[j].bb

\* a unit was lowered to the end in which one function body holds two
\* short-circuit expressions: five blocks, sixteen or more appended values
C22_Witness ==
  /\ pc = "done"
  /\ result = "Ok"
  /\ \E f \in Funcs :
       /\ Len(program.funcs[f].layout) = 5
       /\ Cardinality(InstsOf(program.funcs[f])) >= 16

\* the instruction list of the block of function LastFunc with handle bb
InstsIn(bb) == LastFunc.layout[BBIndex(LastFunc.layout, bb)].insts

C23_WitnessRedefinition ==
  /\ LastItem("VarDecl")
  /\ last.arg = DeclVar(<<VarDef("a", a)>>)
  /\ pc = "error"
  /\ result = "Redefinition"
  /\ LET cur == InstsIn(context.bb)
     IN /\ Len(cur) >= 3
        /\ cur[Len(cur) - 2] = last.pre.ndfg + 1
        /\ LastFunc.dfg[cur[Len(cur) - 1]].kind = "Load"
        /\ LastFunc.dfg[cur[Len(cur)]] = Store(cur[Len(cur) - 1], last.pre.ndfg + 1)

\* `int b = a || b;` shadowing a variable b: the slot is in the block that was
\* current, the store in the join block, and the outer b was the one loaded
C23_WitnessBlocks ==
  /\ LastItem("VarDecl")
  /\ last.arg = DeclVar(<<VarDef("b", LOr(a, b))>>)
  /\ pc = "body"
  /\ context.bb # last.pre.bb
  /\ SeqHas(InstsIn(last.pre.bb), last.pre.ndfg + 1)
  /\ LET cur == InstsIn(context.bb)
     IN /\ Len(cur) = 2
        /\ LastFunc.dfg[cur[2]] = Store(cur[1], last.pre.ndfg + 1)
  /\ \E v \in StepInsts :
       LastFunc.dfg[v] = Load(SymbolTable_get(last.pre.symbol, globals, "b").alloc)

\* `int a = a;` where no a is visible: undefined variable, the slot appended
C23_WitnessUndefined ==
  /\ LastItem("VarDecl")
  /\ last.arg = DeclVar(<<VarDef("a", a)>>)
  /\ result = "UndefinedVariable"
  /\ LET cur == InstsIn(context.bb)
     IN cur[Len(cur)] = last.pre.ndfg + 1

(***************************************************************************)
(* Properties of the context methods (SpecContext)                         *)
(***************************************************************************)
\* C13: add_inst without an open block returns Ok and changes nothing: the
\* instruction lists, the block list, the values, the current block and the
\* symbol table are as before; with an open block it appends the value at
\* the end of the current block and changes no other block, nor the current
\* block, nor the symbol table (a value the block already holds is refused
\* and nothing is changed).
C13_AddInst ==
  last.op = "add_inst" =>
    LET pre == last.pre
        cur == BBIndex(pre.layout, pre.bb)
    IN /\ context.bb = pre.bb
       /\ context.symbol = pre.symbol
       /\ Len(CurFunc.dfg) = pre.ndfg
       /\ IF pre.bb = None
          THEN result = NoErr /\ CurFunc.layout = pre.layout
          ELSE IF SeqHas(pre.layout[cur].insts, last.arg)
          THEN result = "PushKeyError" /\ CurFunc.layout = pre.layout
          ELSE /\ result = NoErr
               /\ CurFunc.layout = [pre.layout EXCEPT ![cur].insts = Append(@, last.arg)]

\* add_inst was called on a context without an open block whose function
\* has blocks that hold instructions
C13_Witness ==
  /\ last.op = "add_inst"
  /\ last.pre.bb = None
  /\ Len(last.pre.layout) >= 3
  /\ result = NoErr

\* add_inst appended to the second block of a function
C13_WitnessOpen ==
  /\ last.op = "add_inst"
  /\ last.pre.bb # None
  /\ BBIndex(last.pre.layout, last.pre.bb) = 2
  /\ result = NoErr
  /\ Len(CurFunc.layout[1].insts) > 0

\* the name of block bb of function fd
BBName(fd, bb) == fd.dfg_bbs[bb]

\* C14: add_bb appends one empty block to the end of the block list at
\* once, names it by the number of add_bb calls made before on this
\* function, and keeps the current block and every instruction list; so the
\* blocks of a function are numbered 0, 1, 2, ... in the order of the
\* block list, the entry block is number 0 and no two names are equal.
C14_AddBb ==
  /\ last.op = "add_bb" =>
       /\ result = NoErr
       /\ CurFunc.layout = Append(last.pre.layout, [bb |-> last.val, insts |-> <<>>])
       /\ BBName(CurFunc, last.val) = <<"%bb", Len(last.pre.layout)>>
       /\ context.bb = last.pre.bb
       /\ context.symbol = last.pre.symbol
       /\ context.next_bb_no = Len(last.pre.layout) + 1
  /\ \A f \in Funcs :
       LET fd == program.funcs[f]
       IN /\ \A i \in 1..Len(fd.layout) : BBName(fd, fd.layout[i].bb) = <<"%bb", i - 1>>
          /\ \A i, j \in 1..Len(fd.layout) :
               i # j => BBName(fd, fd.layout[i].bb) # BBName(fd, fd.layout[j].bb)

\* add_bb was called twice in a row on a function with an entry block that
\* holds instructions, while that block stayed current
C14_Witness ==
  /\ last.op = "add_bb"
  /\ Len(CurFunc.layout) = 3
  /\ BBName(CurFunc, last.val) = <<"%bb", 2>>
  /\ context.bb = CurFunc.layout[1].bb
  /\ Len(CurFunc.layout[1].insts) > 0

(***************************************************************************)
(* Properties of loop lowering (SpecLoop)                                  *)
(***************************************************************************)
OpenLoops == Loops(frames)

LastLoopStmt(k) == last.op = "LoopStmt" /\ last.arg.k = k

\* what a break or continue that was lowered in a loop has done: target is
\* the block it jumps to
JumpedTo(target) ==
  LET fd == CurFunc
      jump == Len(fd.dfg)
      cur == BBIndex(last.pre.layout, last.pre.bb)
  IN /\ OpenLoops # <<>>
     /\ fd.dfg[jump] = Jump(target)
     /\ Len(fd.dfg) = last.pre.ndfg + 1
     /\ context.bb = None
     /\ IF last.pre.bb = None THEN fd.layout = last.pre.layout
        ELSE fd.layout = [last.pre.layout EXCEPT ![cur].insts = Append(@, jump)]

\* C18: while a body is lowered the loop-target stack holds one pair per
\* open while loop, innermost last, made of the loop's condition block and
\* end block; the condition block ends in the branch to the body block and
\* the end block, and the end block is current once the loop is left; a
\* break in a loop appends a jump to the end block of the innermost loop
\* and a continue a jump to its condition block (to the current block, if
\* one is open) and leaves no block open; outside any loop both fail and
\* emit nothing.
C18_LoopTargets ==
  /\ pc = "loop" =>
       /\ Len(context.loop_jump_pt) = Len(OpenLoops)
       /\ \A i \in 1..Len(OpenLoops) :
            /\ context.loop_jump_pt[i] = <<OpenLoops[i].cond_bb, OpenLoops[i].end_bb>>
            /\ LET is == insts(Ctx, OpenLoops[i].cond_bb)
               IN /\ Len(is) > 0
                  /\ CurFunc.dfg[is[Len(is)]].kind = "Branch"
                  /\ CurFunc.dfg[is[Len(is)]].true_bb = OpenLoops[i].body_bb
                  /\ CurFunc.dfg[is[Len(is)]].false_bb = OpenLoops[i].end_bb
  /\ (pc = "loop" /\ last.op = "ExitWhile") => context.bb = last.arg.end_bb
  /\ (LastLoopStmt("Break") \/ LastLoopStmt("Continue")) =>
       IF pc = "error"
       THEN /\ Loops(unwound) = <<>>
            /\ result = "InvalidControlTransfer"
            /\ CurFunc.layout = last.pre.layout
            /\ Len(CurFunc.dfg) = last.pre.ndfg
       ELSE IF last.arg.k = "Break"
       THEN JumpedTo(OpenLoops[Len(OpenLoops)].end_bb)
       ELSE JumpedTo(OpenLoops[Len(OpenLoops)].cond_bb)

\* a break was lowered in the body of a loop nested in another loop, with
\* an open block
C18_Witness ==
  /\ pc = "loop"
  /\ LastLoopStmt("Break")
  /\ Len(OpenLoops) = 2
  /\ last.pre.bb # None
  /\ OpenLoops[1].end_bb # OpenLoops[2].end_bb

\* a continue was lowered in a block that is the body of a loop
C18_WitnessContinue ==
  /\ pc = "loop"
  /\ LastLoopStmt("Continue")
  /\ Len(OpenLoops) = 1
  /\ frames[Len(frames)].kind = "block"
  /\ last.pre.bb # None

\* a break outside any loop, after a loop had been left
C18_WitnessOutside ==
  /\ pc = "error"
  /\ LastLoopStmt("Break")
  /\ Len(CurFunc.layout) >= 4

====
